---------------------------- MODULE Spec2Model ----------------------------
(***************************************************************************)
(* A model of the Galaxies (Tentai Show) engine of laniakea: the universe   *)
(* generator (rust/src/model/universe.rs), the galaxy predicates           *)
(* (rust/src/model/galaxy.rs), the objective (rust/src/model/objective.rs) *)
(* and the constraint solver (rust/src/model/solver.rs).                   *)
(*                                                                         *)
(* A position is a pair <<row, column>>.  A galaxy is a set of positions.  *)
(* A universe is a record [grid, failed]: grid maps every cell to its      *)
(* galaxy identifier, failed says that a panic (an out-of-range index or a *)
(* failed assertion) has ended the program.                                *)
(***************************************************************************)
EXTENDS Integers, Sequences, FiniteSets, TLC

VARIABLES
    width,          \* number of columns of the grid
    height,         \* number of rows of the grid
    grid,           \* Universe.grid
    panicked,       \* the program has panicked
    result,         \* what the last generate_step call returned: "none", "true", "false"
    removal,        \* <<>> or <<r>>: the last remove_positions_from_galaxy call
    iteration,      \* Universe::generate: _iteration
    branch,         \* Universe::generate: _branch
    next_universes, \* Universe::generate: <<>> or <<g>>, the entry max_by_key would return
    started,        \* Universe::generate: the universe at the start of the iteration
    pc,             \* position of Universe::generate
    origin,         \* what the objective was made from: "universe", "centers", "invalid",
                    \* "walls" or "none"
    centers,        \* Solver.galaxy_centers: the identifier of centers[i] is i - 1
    walls,          \* Objective.walls: the borders that are walls before solve
    stack,          \* the solvers: stack[1] is the caller's, the others are clones
    outcome,        \* of the caller's solve: "none", "running", "ok", "contradiction",
                    \* or "panicked" when Solver::new did not return
    first,          \* what an earlier solve of the same objective returned, if any
    board,          \* <<>> or a Board: width, height, borders
    the_galaxy,     \* <<>> or <<g>>: a Galaxy, the set of its positions
    returned,       \* <<>> or <<r>>: the method of Board or Galaxy that was called
                    \* last, and what it returned
    error,          \* GameState.error: <<>> for None, <<e>> for Some(e)
    history         \* GameState.history: the entries to undo and the entries to redo

vars == <<width, height, grid, panicked, result, removal, iteration, branch,
          next_universes, started, pc, origin, centers, walls, error, history, stack, outcome, first,
          board, the_galaxy, returned>>

genvars == <<removal, iteration, branch, next_universes, started, pc>>
solvars == <<origin, centers, walls, error, history, stack, outcome, first>>
boardvars == <<board, the_galaxy, returned>>
gamevars == <<error, history>>

(***************************************************************************)
(* Bounds of the model.                                                    *)
(***************************************************************************)
MaxWidth == 3
MaxHeight == 3
\* generate_step is explored on every grid of at most this many cells
GenCells == 6
\* the iterations of Universe::generate that are explored
MaxIterations == 1
\* solve is explored on the objective of every valid universe of at most
\* this many cells
SolveCells == 9
\* and on every set of at most MaxCenters centers in a grid of at most
\* CentersCells cells
CentersCells == 4
MaxCenters == 3
\* and on the objective of every valid universe of a grid this wide and this
\* high whose first column is a galaxy and whose last column is a galaxy
FlankedWidth == 4
FlankedHeight == 3
\* and on every set of at most InvalidCenters centers, one of them out of the
\* grid, and on the grids of no width or no height
InvalidCenters == 2
\* and on every set of at most WalledCenters centers in a grid of at most
\* CentersCells cells with at most MaxWalls walls placed before solve
MaxWalls == 1
WalledCenters == 2
\* the centers are tried in every order when there are at most this many,
\* and ascending and descending otherwise
MaxPermuted == 3

(***************************************************************************)
(* Program constants.                                                      *)
(***************************************************************************)
IterationsPerCell == 10
Branches == 5

Min(S) == CHOOSE x \in S : \A y \in S : x <= y
Max(S) == CHOOSE x \in S : \A y \in S : x >= y

Cells(w, h) == (0 .. h - 1) \X (0 .. w - 1)

Shapes(cells) ==
    {s \in (1 .. MaxWidth) \X (1 .. MaxHeight) : s[1] * s[2] <= cells}

(***************************************************************************)
(* Position                                                                *)
(***************************************************************************)
Up(p) == <<p[1] - 1, p[2]>>
Down(p) == <<p[1] + 1, p[2]>>
Left(p) == <<p[1], p[2] - 1>>
Right(p) == <<p[1], p[2] + 1>>
PositionAdjacent(p) == {Up(p), Down(p), Left(p), Right(p)}

\* Position::mirror_position: the mirror of p through the half-step center c
MirrorPosition(c, p) == <<c[1] - p[1], c[2] - p[2]>>

\* The cells around a half-step center
CenterPositions(c) ==
    LET rows == IF c[1] % 2 = 0 THEN {c[1] \div 2} ELSE {c[1] \div 2, c[1] \div 2 + 1}
        columns == IF c[2] % 2 = 0 THEN {c[2] \div 2} ELSE {c[2] \div 2, c[2] \div 2 + 1}
    IN  rows \X columns

(***************************************************************************)
(* Galaxy                                                                  *)
(***************************************************************************)
\* The center of the bounding rectangle, were its bounds half-open
CenterOfHalfOpen(g) ==
    IF g = {} THEN <<0, 0>>
    ELSE LET rows == {p[1] : p \in g}
             columns == {p[2] : p \in g}
         IN  <<Min(rows) + Max(rows) + 1, Min(columns) + Max(columns) + 1>>

Center(g) ==
    IF g = {} THEN <<0, 0>>
    ELSE LET rows == {p[1] : p \in g}
             columns == {p[2] : p \in g}
         IN  <<Min(rows) + Max(rows), Min(columns) + Max(columns)>>

GalaxyMirrorPosition(g, p) == MirrorPosition(Center(g), p)

IsSymmetric(g) == \A p \in g : GalaxyMirrorPosition(g, p) \in g

RECURSIVE Reach(_, _)
Reach(g, seen) ==
    LET more == {q \in g \ seen : \E p \in seen : q \in PositionAdjacent(p)}
    IN  IF more = {} THEN seen ELSE Reach(g, seen \cup more)

IsConnected(g) == g = {} \/ Reach(g, {CHOOSE p \in g : TRUE}) = g

ContainsCenter(g) == \A p \in CenterPositions(Center(g)) : p \in g

IsValid(g) == g # {} /\ ContainsCenter(g) /\ IsConnected(g) /\ IsSymmetric(g)

IsEmptyOrValid(g) == g = {} \/ IsValid(g)

(***************************************************************************)
(* Universe                                                                *)
(***************************************************************************)
\* Universe::new: every cell is its own galaxy, numbered row by row
NewGrid(w, h) == [p \in Cells(w, h) |-> p[1] * w + p[2]]

IsInside(u, p) == p \in DOMAIN u.grid

Size(u) == Cardinality(DOMAIN u.grid)

\* get_next_available_id indexes a table of Size(u) entries by identifier
IdOutOfRange(u) == \E p \in DOMAIN u.grid : u.grid[p] >= Size(u)

\* An identifier that may be in use
SmallestId(u) == 0

GetNextAvailableId(u) ==
    LET free == {id \in 0 .. Size(u) - 1 : \A p \in DOMAIN u.grid : u.grid[p] # id}
    IN  IF free = {} THEN Size(u) ELSE Min(free)

RemoveAllNeighbours(u, p) ==
    IF u.failed THEN u
    ELSE IF IdOutOfRange(u) \/ ~IsInside(u, p) THEN [u EXCEPT !.failed = TRUE]
    ELSE [u EXCEPT !.grid[p] = GetNextAvailableId(u)]

MakeNeighbours(u, p1, p2) ==
    IF u.failed THEN u
    ELSE IF ~IsInside(u, p1) \/ ~IsInside(u, p2) THEN [u EXCEPT !.failed = TRUE]
    ELSE [u EXCEPT !.grid[p2] = u.grid[p1]]

AreNeighbours(u, p1, p2) ==
    IsInside(u, p1) /\ IsInside(u, p2) /\ u.grid[p1] = u.grid[p2]

AdjacentPositions(u, p) == {q \in PositionAdjacent(p) : IsInside(u, q)}

GetAdjacentNonNeighbours(u, p) ==
    {q \in AdjacentPositions(u, p) : ~AreNeighbours(u, p, q)}

GetGalaxy(u, p) == {q \in DOMAIN u.grid : u.grid[q] = u.grid[p]}

GetGalaxies(u) == {GetGalaxy(u, p) : p \in DOMAIN u.grid}

UniverseIsValid(u) == \A g \in GetGalaxies(u) : IsValid(g)

\* The rest of the galaxy is broken up into singles, in the order in which
\* the HashSet of positions happens to be iterated: every order is possible.
\* A break-up that leaves the rest of the galaxy together
BreakUpNothing(u, g) == {u}

RECURSIVE BreakUp(_, _)
BreakUp(u, g) ==
    IF g = {} THEN {u}
    ELSE UNION {BreakUp(RemoveAllNeighbours(u, q), g \ {q}) : q \in g}

\* The loop of remove_positions_from_galaxy from its i-th position on; g is
\* the local copy of the galaxy.  The set of the outcomes, each with a flag
\* saying whether the early return was taken.
RECURSIVE RemoveLoop(_, _, _, _, _)
RemoveLoop(u, galaxy, g, positions, i) ==
    IF u.failed \/ i > Len(positions) THEN {[universe |-> u, broken |-> FALSE]}
    ELSE LET p == positions[i] IN
         IF p \notin galaxy
         THEN {[universe |-> [u EXCEPT !.failed = TRUE], broken |-> FALSE]}
         ELSE LET u1 == RemoveAllNeighbours(u, p)
                  g1 == g \ {p}
                  p2 == GalaxyMirrorPosition(galaxy, p)
                  asymmetric == ~IsSymmetric(g1)
                  u2 == IF asymmetric THEN RemoveAllNeighbours(u1, p2) ELSE u1
                  g2 == IF asymmetric THEN g1 \ {p2} ELSE g1
              IN  IF ~IsEmptyOrValid(g2)
                  THEN {[universe |-> v, broken |-> TRUE] : v \in BreakUp(u2, g2)}
                  ELSE RemoveLoop(u2, galaxy, g2, positions, i + 1)

\* A removal that detaches the positions and repairs nothing
RemovePositionsOnly(u, galaxy, positions) ==
    {[universe |->
         IF Len(positions) = 1 THEN RemoveAllNeighbours(u, positions[1])
         ELSE RemoveAllNeighbours(RemoveAllNeighbours(u, positions[1]), positions[2]),
      broken |-> FALSE]}

RemovePositionsFromGalaxy(u, galaxy, positions) ==
    RemoveLoop(u, galaxy, galaxy, positions, 1)


\* The candidates for p3: the mirror of p2 through the center of g1 when it
\* is inside the universe, and the adjacent non-neighbours of p2 that make
\* g1 with p2 and p3 symmetric.
P3Candidates(u, g1, p2) ==
    {p3 \in {GalaxyMirrorPosition(g1, p2)} : IsInside(u, p3)}
        \cup {p3 \in GetAdjacentNonNeighbours(u, p2) :
                 IsSymmetric((g1 \cup {p2}) \cup {p3})}

\* generate_step once p1 and p2 are drawn and g1 with p2 is symmetric
StepSymmetric(u, p1, p2) ==
    LET g2 == GetGalaxy(u, p2)
    IN  {[universe |-> MakeNeighbours(r.universe, p1, p2), success |-> TRUE] :
            r \in RemovePositionsFromGalaxy(u, g2, <<p2>>)}

\* generate_step once p1, p2 and p3 are drawn
StepWithP3(u, p1, p2, p3) ==
    LET g2 == GetGalaxy(u, p2)
        g3 == GetGalaxy(u, p3)
        removed ==
            IF g2 = g3
            THEN {r.universe : r \in RemovePositionsFromGalaxy(u, g2, <<p2, p3>>)}
            ELSE UNION {{r3.universe :
                            r3 \in RemovePositionsFromGalaxy(r2.universe, g3, <<p3>>)} :
                        r2 \in RemovePositionsFromGalaxy(u, g2, <<p2>>)}
    IN  {[universe |-> MakeNeighbours(MakeNeighbours(v, p1, p2), p1, p3),
          success |-> TRUE] : v \in removed}

\* generate_step with p1 drawn: the outcomes of every draw of p2, of p3 and
\* of the order in which a galaxy is broken up
GenerateStepBody(u, p1) ==
    LET candidates == GetAdjacentNonNeighbours(u, p1)
        g1 == GetGalaxy(u, p1)
    IN  IF candidates = {} THEN {[universe |-> u, success |-> FALSE]}
        ELSE UNION {
            IF IsSymmetric(g1 \cup {p2}) THEN StepSymmetric(u, p1, p2)
            ELSE LET p3_candidates == P3Candidates(u, g1, p2)
                 IN  IF p3_candidates = {}
                     THEN {[universe |-> u, success |-> FALSE]}
                     ELSE UNION {StepWithP3(u, p1, p2, p3) : p3 \in p3_candidates}
            : p2 \in candidates}

\* A generate_step that takes p2 out of its galaxy before it looks for p3
GenerateStepDetachingFirst(u, p1) ==
    LET candidates == GetAdjacentNonNeighbours(u, p1)
    IN  {IF o.success \/ candidates = {} THEN o
         ELSE [o EXCEPT !.universe =
                  RemoveAllNeighbours(u, CHOOSE p2 \in candidates : TRUE)]
         : o \in GenerateStepBody(u, p1)}

GenerateStep(u, p1) == GenerateStepBody(u, p1)

(***************************************************************************)
(* Valid universes, built as Universe::from(&[Galaxy]) builds them.        *)
(***************************************************************************)
ValidGalaxies(w, h) == {g \in SUBSET Cells(w, h) : IsValid(g)}

\* The first cell of a non-empty set, row by row
FirstCell(S) ==
    CHOOSE p \in S : \A q \in S : p[1] < q[1] \/ (p[1] = q[1] /\ p[2] <= q[2])

RECURSIVE PartitionsOf(_, _)
PartitionsOf(rest, galaxies) ==
    IF rest = {} THEN {{}}
    ELSE LET f == FirstCell(rest)
         IN  UNION {{P \cup {g} : P \in PartitionsOf(rest \ g, galaxies)} :
                        g \in {g \in galaxies : f \in g /\ g \subseteq rest}}

PositionLess(p, q) == p[1] < q[1] \/ (p[1] = q[1] /\ p[2] < q[2])

\* The galaxies of a partition as a list, ordered by their first cells
RECURSIVE GalaxyList(_)
GalaxyList(P) ==
    IF P = {} THEN <<>>
    ELSE LET g == CHOOSE g \in P :
                      \A o \in P \ {g} : PositionLess(FirstCell(g), FirstCell(o))
         IN  <<g>> \o GalaxyList(P \ {g})

\* Universe::from(&[Galaxy]): the identifier of a cell is the index of its galaxy
UniverseFrom(w, h, galaxies) ==
    [p \in Cells(w, h) |->
        (CHOOSE i \in 1 .. Len(galaxies) : p \in galaxies[i]) - 1]

ValidGrids(w, h) ==
    {UniverseFrom(w, h, GalaxyList(P)) :
        P \in PartitionsOf(Cells(w, h), ValidGalaxies(w, h))}

(***************************************************************************)
(* Spec: generate_step, called again and again on the universe of          *)
(* Universe::new.                                                          *)
(***************************************************************************)
U == [grid |-> grid, failed |-> panicked]

NoRemoval == removal = <<>>

\* No method of Board or Galaxy is explored
NoBoard == board = <<>> /\ the_galaxy = <<>> /\ returned = <<>>

\* No GameState is explored
NoGame == error = <<>> /\ history = <<>>

NoSolver ==
    /\ origin = "none"
    /\ centers = <<>>
    /\ walls = {}
    /\ stack = <<>>
    /\ outcome = "none"
    /\ first = <<>>

NoGenerate ==
    /\ iteration = 0
    /\ branch = 0
    /\ next_universes = <<>>
    /\ started = <<>>
    /\ pc = "idle"

Init ==
    /\ \E s \in Shapes(GenCells) : width = s[1] /\ height = s[2]
    /\ grid = NewGrid(width, height)
    /\ panicked = FALSE
    /\ result = "none"
    /\ NoRemoval
    /\ NoGenerate
    /\ NoSolver
    /\ NoBoard
    /\ NoGame

\* One call of generate_step that returns
GenerateStepReturns ==
    /\ ~panicked
    /\ \E p1 \in Cells(width, height) : \E o \in GenerateStep(U, p1) :
          /\ ~o.universe.failed
          /\ grid' = o.universe.grid
          /\ result' = IF o.success THEN "true" ELSE "false"
    /\ UNCHANGED <<width, height, panicked, removal, iteration, branch,
                   next_universes, started, pc,
                   origin, centers, walls, error, history, stack, outcome, first, board, the_galaxy, returned>>

\* One call of generate_step that panics
GenerateStepPanics ==
    /\ ~panicked
    /\ \E p1 \in Cells(width, height) : \E o \in GenerateStep(U, p1) :
          o.universe.failed
    /\ panicked' = TRUE
    /\ result' = "none"
    /\ UNCHANGED <<width, height, grid, removal, iteration, branch,
                   next_universes, started, pc,
                   origin, centers, walls, error, history, stack, outcome, first, board, the_galaxy, returned>>

Next == GenerateStepReturns \/ GenerateStepPanics

Spec == Init /\ [][Next]_vars

(***************************************************************************)
(* SpecRemove: remove_positions_from_galaxy, called once on a valid        *)
(* universe with a galaxy of it and one or two of the galaxy's positions.  *)
(***************************************************************************)
InitRemove ==
    /\ \E s \in Shapes(GenCells) : width = s[1] /\ height = s[2]
    /\ grid \in ValidGrids(width, height)
    /\ panicked = FALSE
    /\ result = "none"
    /\ NoRemoval
    /\ NoGenerate
    /\ NoSolver
    /\ NoBoard
    /\ NoGame

\* One position of the galaxy, or two different ones
PositionLists(g) ==
    {<<p>> : p \in g} \cup {s \in {<<p, q>> : p, q \in g} : s[1] # s[2]}

RemovePositions ==
    /\ removal = <<>>
    /\ \E g \in GetGalaxies(U) : \E positions \in PositionLists(g) :
       \E r \in RemovePositionsFromGalaxy(U, g, positions) :
          /\ grid' = r.universe.grid
          /\ panicked' = r.universe.failed
          /\ removal' = <<[galaxy |-> g, positions |-> positions,
                           broken |-> r.broken]>>
    /\ UNCHANGED <<width, height, result, iteration, branch, next_universes,
                   started, pc,
                   origin, centers, walls, error, history, stack, outcome, first, board, the_galaxy, returned>>

NextRemove == RemovePositions

SpecRemove == InitRemove /\ [][NextRemove]_vars

(***************************************************************************)
(* SpecGenerate: Universe::generate.  The score of a universe is a         *)
(* floating-point sum of powers and arctangents; which of the pushed       *)
(* universes has the highest score is left open, so next_universes holds   *)
(* the one pushed universe that max_by_key will return.                    *)
(***************************************************************************)
Iterations(w, h) ==
    IF w * h * IterationsPerCell <= MaxIterations
    THEN w * h * IterationsPerCell ELSE MaxIterations

InitGenerate ==
    /\ \E s \in Shapes(GenCells) : width = s[1] /\ height = s[2]
    /\ grid = NewGrid(width, height)
    /\ panicked = FALSE
    /\ result = "none"
    /\ NoRemoval
    /\ iteration = 0
    /\ branch = 0
    /\ next_universes = <<>>
    /\ started = <<grid>>
    /\ pc = "branch"
    /\ NoSolver
    /\ NoBoard
    /\ NoGame

\* The entry max_by_key returns once next_universe is pushed as well
Pushed(best, next_universe) ==
    IF best = <<>> THEN {<<next_universe>>} ELSE {best, <<next_universe>>}

\* The body of the loop over the branches: clone, generate_step, push
BranchStep ==
    /\ pc = "branch"
    /\ branch < Branches
    /\ LET next_universe == grid IN
       \E p1 \in Cells(width, height) : \E o \in GenerateStep(U, p1) :
          /\ ~o.universe.failed
          /\ grid' = o.universe.grid
          /\ result' = IF o.success THEN "true" ELSE "false"
          /\ IF o.success
             THEN next_universes' \in Pushed(next_universes, next_universe)
             ELSE next_universes' = next_universes
    /\ branch' = branch + 1
    /\ UNCHANGED <<width, height, panicked, removal, iteration, started, pc,
                   origin, centers, walls, error, history, stack, outcome, first, board, the_galaxy, returned>>

BranchPanics ==
    /\ pc = "branch"
    /\ branch < Branches
    /\ \E p1 \in Cells(width, height) : \E o \in GenerateStep(U, p1) :
          o.universe.failed
    /\ panicked' = TRUE
    /\ pc' = "panicked"
    /\ UNCHANGED <<width, height, grid, result, removal, iteration, branch,
                   next_universes, started,
                   origin, centers, walls, error, history, stack, outcome, first, board, the_galaxy, returned>>

\* universe = next_universes.into_iter().max_by_key(..).unwrap_or(universe)
SelectUniverse ==
    /\ pc = "branch"
    /\ branch = Branches
    /\ grid' = IF next_universes = <<>> THEN grid ELSE next_universes[1]
    /\ pc' = "selected"
    /\ UNCHANGED <<width, height, panicked, result, removal, iteration, branch,
                   next_universes, started,
                   origin, centers, walls, error, history, stack, outcome, first, board, the_galaxy, returned>>

NextIteration ==
    /\ pc = "selected"
    /\ iteration' = iteration + 1
    /\ branch' = 0
    /\ next_universes' = <<>>
    /\ started' = <<grid>>
    /\ pc' = IF iteration + 1 < Iterations(width, height) THEN "branch" ELSE "assert"
    /\ UNCHANGED <<width, height, grid, panicked, result, removal,
                   origin, centers, walls, error, history, stack, outcome, first, board, the_galaxy, returned>>

\* assert!(universe.is_valid()); universe
ReturnUniverse ==
    /\ pc = "assert"
    /\ IF UniverseIsValid(U)
       THEN pc' = "returned" /\ UNCHANGED panicked
       ELSE pc' = "panicked" /\ panicked' = TRUE
    /\ UNCHANGED <<width, height, grid, result, removal, iteration, branch,
                   next_universes, started,
                   origin, centers, walls, error, history, stack, outcome, first, board, the_galaxy, returned>>

NextGenerate ==
    \/ BranchStep
    \/ BranchPanics
    \/ SelectUniverse
    \/ NextIteration
    \/ ReturnUniverse

SpecGenerate == InitGenerate /\ [][NextGenerate]_vars

(***************************************************************************)
(* Border: a pair of adjacent positions, the smaller one first.  The       *)
(* position above row 0 and the one left of column 0 are outside the grid. *)
(***************************************************************************)
BorderNew(p1, p2) == IF PositionLess(p1, p2) THEN <<p1, p2>> ELSE <<p2, p1>>
BorderUp(p) == BorderNew(Up(p), p)
BorderDown(p) == BorderNew(p, Down(p))
BorderLeft(p) == BorderNew(Left(p), p)
BorderRight(p) == BorderNew(p, Right(p))

\* The borders around the grid
FrameBorders(w, h) ==
    UNION {{BorderUp(<<0, column>>), BorderUp(<<h, column>>)} : column \in 0 .. w - 1}
    \cup UNION {{BorderLeft(<<row, 0>>), BorderLeft(<<row, w>>)} : row \in 0 .. h - 1}

\* The borders between two cells of the grid
InteriorBorders(w, h) ==
    {BorderNew(p, q) : p \in Cells(w, h), q \in Cells(w, h)} \cap
    {b \in Cells(w, h) \X Cells(w, h) : b[2] \in PositionAdjacent(b[1])}

\* BTreeMap<Position, _> iterates its cells row by row
CellSeq(w, h) == [i \in 1 .. w * h |-> <<(i - 1) \div w, (i - 1) % w>>]

\* A BTreeSet<GalaxyId> as an ascending list
RECURSIVE IdSeq(_)
IdSeq(ids) ==
    IF ids = {} THEN <<>> ELSE <<Min(ids)>> \o IdSeq(ids \ {Min(ids)})

(***************************************************************************)
(* Objective                                                               *)
(***************************************************************************)
\* The first cell of every galaxy in place of its center
ObjectiveOfFirstCells(u) ==
    {<<2 * FirstCell(g)[1], 2 * FirstCell(g)[2]>> : g \in GetGalaxies(u)}

\* Objective::generate: the center of every galaxy, and no walls
ObjectiveGenerate(u) == {Center(g) : g \in GetGalaxies(u)}

\* The half-step positions whose surrounding cells are all in the grid
InsideCenters(w, h) == (0 .. 2 * h - 2) \X (0 .. 2 * w - 2)

\* The orders in which a list can hold the elements of a set
RECURSIVE Orders(_)
Orders(S) ==
    IF S = {} THEN {<<>>}
    ELSE UNION {{<<x>> \o rest : rest \in Orders(S \ {x})} : x \in S}

RECURSIVE Ascending(_)
Ascending(S) ==
    IF S = {} THEN <<>> ELSE <<FirstCell(S)>> \o Ascending(S \ {FirstCell(S)})

Reverse(s) == [i \in 1 .. Len(s) |-> s[Len(s) + 1 - i]]

(***************************************************************************)
(* Solver.  A solver s is a record: borders is the map of the labelled     *)
(* borders, possible_galaxy_ids the candidates of every cell.              *)
(***************************************************************************)
\* A map of the one key
PutAlone(map, key, value) == [k \in {key} |-> value]

\* BTreeMap::insert
Put(map, key, value) == [k \in DOMAIN map \cup {key} |-> IF k = key THEN value ELSE map[k]]

\* A solver that lets the first center have only the cells around it
SolverNewFirstConfined(w, h, galaxy_centers, objective_walls) ==
    [borders |-> [b \in objective_walls \cup FrameBorders(w, h) |-> TRUE],
     possible_galaxy_ids |->
        [p \in Cells(w, h) |->
            {id \in 0 .. Len(galaxy_centers) - 1 :
                /\ id = 0 => p \in CenterPositions(galaxy_centers[1])
                /\ \A other \in 0 .. Len(galaxy_centers) - 1 :
                      p \in CenterPositions(galaxy_centers[other + 1]) => other = id}]]

\* A solver that starts from the frame alone
SolverNewWithoutWalls(w, h, galaxy_centers, objective_walls) ==
    [borders |-> [b \in FrameBorders(w, h) |-> TRUE],
     possible_galaxy_ids |->
        [p \in Cells(w, h) |->
            {id \in 0 .. Len(galaxy_centers) - 1 :
                \A other \in 0 .. Len(galaxy_centers) - 1 :
                    p \in CenterPositions(galaxy_centers[other + 1]) => other = id}]]

\* Solver::new
SolverNew(w, h, galaxy_centers, objective_walls) ==
    [borders |-> [b \in objective_walls \cup FrameBorders(w, h) |-> TRUE],
     possible_galaxy_ids |->
        [p \in Cells(w, h) |->
            {id \in 0 .. Len(galaxy_centers) - 1 :
                \A other \in 0 .. Len(galaxy_centers) - 1 :
                    p \in CenterPositions(galaxy_centers[other + 1]) => other = id}]]

\* Every labelled border, whatever its label
GetLabelled(s) == DOMAIN s.borders

\* Solver::get_borders: the borders labelled true
GetBorders(s) == {b \in DOMAIN s.borders : s.borders[b]}

\* Solver::get_cells_with_certain_galaxy_id: the cells with exactly one
\* candidate, row by row
GetCellsWithCertainGalaxyId(w, h, s) ==
    SelectSeq(CellSeq(w, h), LAMBDA p : Cardinality(s.possible_galaxy_ids[p]) = 1)

\* The candidate of a cell that has exactly one
CertainId(s, p) == CHOOSE id \in s.possible_galaxy_ids[p] : TRUE

RECURSIVE Flatten(_)
Flatten(lists) ==
    IF lists = <<>> THEN <<>> ELSE Head(lists) \o Flatten(Tail(lists))

\* An outcome of a rule: the solver it leaves, Ok(changed) or Err(Contradiction)
Outcome(s, changed, err) == [solver |-> s, changed |-> changed, err |-> err]

\* Solver::add_borders_between_known_galaxies.  Every border between two
\* certain cells gets the same label from either side, so the order in which
\* the cells and their neighbours are visited does not show in the outcome.
AddBordersBetweenKnownGalaxies(w, h, s) ==
    LET certain == {p \in Cells(w, h) : Cardinality(s.possible_galaxy_ids[p]) = 1}
        between == {b \in certain \X certain :
                       b[2] \in PositionAdjacent(b[1]) /\ PositionLess(b[1], b[2])}
        should_have_border(b) == CertainId(s, b[1]) # CertainId(s, b[2])
        fresh == between \ DOMAIN s.borders
    IN  IF \E b \in between \cap DOMAIN s.borders : s.borders[b] # should_have_border(b)
        THEN Outcome(s, FALSE, TRUE)
        ELSE Outcome([s EXCEPT !.borders =
                         [b \in DOMAIN s.borders \cup fresh |->
                             IF b \in DOMAIN s.borders THEN s.borders[b]
                             ELSE should_have_border(b)]],
                     fresh # {}, FALSE)

\* The pairs of a mirror_borders that takes the mirrored border on the same
\* side of the mirrored cell
MirrorPairsSameSide(w, h, s, galaxy_centers) ==
    LET cells == GetCellsWithCertainGalaxyId(w, h, s)
    IN  Flatten([i \in 1 .. Len(cells) |->
            LET position == cells[i]
                mirrored_position ==
                    MirrorPosition(galaxy_centers[CertainId(s, position) + 1], position)
            IN  << <<BorderUp(position), BorderUp(mirrored_position)>>,
                   <<BorderLeft(position), BorderLeft(mirrored_position)>>,
                   <<BorderRight(position), BorderRight(mirrored_position)>>,
                   <<BorderDown(position), BorderDown(mirrored_position)>> >>])

\* The (border, mirrored_border) pairs of mirror_borders, in the order of the
\* two loops
MirrorPairs(w, h, s, galaxy_centers) ==
    LET cells == GetCellsWithCertainGalaxyId(w, h, s)
    IN  Flatten([i \in 1 .. Len(cells) |->
            LET position == cells[i]
                mirrored_position ==
                    MirrorPosition(galaxy_centers[CertainId(s, position) + 1], position)
            IN  << <<BorderUp(position), BorderDown(mirrored_position)>>,
                   <<BorderLeft(position), BorderRight(mirrored_position)>>,
                   <<BorderRight(position), BorderLeft(mirrored_position)>>,
                   <<BorderDown(position), BorderUp(mirrored_position)>> >>])

RECURSIVE MirrorLoop(_, _, _, _)
MirrorLoop(s, pairs, i, changed) ==
    IF i > Len(pairs) THEN Outcome(s, changed, FALSE)
    ELSE LET border == pairs[i][1]
             mirrored_border == pairs[i][2]
         IN  IF border \notin DOMAIN s.borders
             THEN MirrorLoop(s, pairs, i + 1, changed)
             ELSE IF mirrored_border \in DOMAIN s.borders
             THEN IF s.borders[border] # s.borders[mirrored_border]
                  THEN Outcome(s, changed, TRUE)
                  ELSE MirrorLoop(s, pairs, i + 1, changed)
             ELSE MirrorLoop([s EXCEPT !.borders =
                                 Put(s.borders, mirrored_border, s.borders[border])],
                             pairs, i + 1, TRUE)

\* Solver::mirror_borders
MirrorBorders(w, h, s, galaxy_centers) ==
    MirrorLoop(s, MirrorPairs(w, h, s, galaxy_centers), 1, FALSE)

\* A search that never leaves the cells around the center
VisitedOnlySeen(s, galaxy_id, seen) == seen

\* The breadth-first search of exclude_unreachable_galaxies: the cells reached
\* from the cells around the center without crossing a border labelled true
\* and without entering a cell that has lost the galaxy as a candidate
RECURSIVE Visited(_, _, _)
Visited(s, galaxy_id, seen) ==
    LET more == {n \in UNION {PositionAdjacent(p) : p \in seen} \ seen :
                    \E p \in seen :
                        /\ n \in PositionAdjacent(p)
                        /\ ~(BorderNew(p, n) \in DOMAIN s.borders
                                /\ s.borders[BorderNew(p, n)])
                        /\ n \in DOMAIN s.possible_galaxy_ids
                        /\ galaxy_id \in s.possible_galaxy_ids[n]}
    IN  IF more = {} THEN seen ELSE Visited(s, galaxy_id, seen \cup more)

\* Solver::exclude_unreachable_galaxies.  A search depends on the borders and
\* on who still has its own galaxy as a candidate, neither of which the
\* removals for another galaxy touch; a cell is found empty at its last
\* removal, whatever the order.
ExcludeUnreachableGalaxies(w, h, s, galaxy_centers) ==
    LET all_cells == Cells(w, h)
        unreachable(p) ==
            {galaxy_id \in 0 .. Len(galaxy_centers) - 1 :
                p \notin Visited(s, galaxy_id,
                                 CenterPositions(galaxy_centers[galaxy_id + 1]))}
        left == [p \in all_cells |-> s.possible_galaxy_ids[p] \ unreachable(p)]
    IN  IF \E p \in all_cells : unreachable(p) # {} /\ left[p] = {}
        THEN Outcome(s, FALSE, TRUE)
        ELSE Outcome([s EXCEPT !.possible_galaxy_ids = left],
                     left # s.possible_galaxy_ids, FALSE)

\* The (position, galaxy_id) pairs of a map of candidates, cells row by row
\* and identifiers ascending
Candidates(w, h, possible, cells) ==
    Flatten([i \in 1 .. Len(cells) |->
                [j \in 1 .. Cardinality(possible[cells[i]]) |->
                    <<cells[i], IdSeq(possible[cells[i]])[j]>>]])

RECURSIVE ImpossibleLoop(_, _, _, _, _)
ImpossibleLoop(s, galaxy_centers, pairs, i, changed) ==
    IF i > Len(pairs) THEN Outcome(s, changed, FALSE)
    ELSE LET position == pairs[i][1]
             galaxy_id == pairs[i][2]
             mirrored_position == MirrorPosition(galaxy_centers[galaxy_id + 1], position)
             galaxy_ids == s.possible_galaxy_ids[position] \ {galaxy_id}
         IN  IF IF mirrored_position \in DOMAIN s.possible_galaxy_ids
                THEN galaxy_id \notin s.possible_galaxy_ids[mirrored_position]
                ELSE TRUE
             THEN IF galaxy_ids = {} THEN Outcome(s, changed, TRUE)
                  ELSE ImpossibleLoop(
                           [s EXCEPT !.possible_galaxy_ids[position] = galaxy_ids],
                           galaxy_centers, pairs, i + 1,
                           changed \/ galaxy_id \in s.possible_galaxy_ids[position])
             ELSE ImpossibleLoop(s, galaxy_centers, pairs, i + 1, changed)

\* Solver::remove_impossible_galaxy_mirrors: the loop runs over a copy of the
\* candidates and looks the mirrored cell up in the live map
RemoveImpossibleGalaxyMirrors(w, h, s, galaxy_centers) ==
    ImpossibleLoop(s, galaxy_centers,
                   Candidates(w, h, s.possible_galaxy_ids, CellSeq(w, h)), 1, FALSE)

\* No assumption at all
NoAssumptions(w, h, s, galaxy_centers) == <<>>

\* The assumptions of the cell that has the fewest candidates, and of no other
AssumptionsOfSmallest(w, h, s, galaxy_centers) ==
    LET several == SelectSeq(CellSeq(w, h),
                       LAMBDA p : Cardinality(s.possible_galaxy_ids[p]) > 1)
        fewest == Min({Cardinality(s.possible_galaxy_ids[several[i]]) : i \in DOMAIN several})
        smallest == SelectSeq(several,
                        LAMBDA p : Cardinality(s.possible_galaxy_ids[p]) = fewest)
    IN  IF several = <<>> THEN <<>>
        ELSE Candidates(w, h, s.possible_galaxy_ids, <<Head(smallest)>>)

\* The cells assume_galaxy tries, fewest candidates first, with each of
\* their candidates
Assumptions(w, h, s, galaxy_centers) ==
    Candidates(w, h, s.possible_galaxy_ids,
        Flatten([n \in 1 .. Len(galaxy_centers) |->
            SelectSeq(CellSeq(w, h),
                LAMBDA p : n > 1 /\ Cardinality(s.possible_galaxy_ids[p]) = n)]))

\* The clone of assume_galaxy, with the cell narrowed to the one candidate
Assume(s, position, galaxy_id) ==
    [s EXCEPT !.possible_galaxy_ids[position] = @ \cap {galaxy_id}]

\* The solver as it was
RefuteNothing(s, position, galaxy_id) == s

\* What assume_galaxy does to its own solver when the clone met a contradiction
Refute(s, position, galaxy_id) ==
    [s EXCEPT !.possible_galaxy_ids[position] = @ \ {galaxy_id}]

\* Solver::solve and Solver::assume_galaxy as functions of the solver: the
\* solver that solve ends with, and whether it returns Err(Contradiction).
\* AssumeFrom is the loop of assume_galaxy from the i-th assumption on.
RECURSIVE SolveOf(_, _, _, _)
RECURSIVE AssumeFrom(_, _, _, _, _, _)
AssumeFrom(w, h, s, galaxy_centers, assumptions, i) ==
    IF i > Len(assumptions) THEN Outcome(s, FALSE, FALSE)
    ELSE IF SolveOf(w, h, Assume(s, assumptions[i][1], assumptions[i][2]), galaxy_centers).err
    THEN Outcome(Refute(s, assumptions[i][1], assumptions[i][2]), TRUE, FALSE)
    ELSE AssumeFrom(w, h, s, galaxy_centers, assumptions, i + 1)

SolveOf(w, h, s, galaxy_centers) ==
    LET rule1 == AddBordersBetweenKnownGalaxies(w, h, s)
        rule2 == MirrorBorders(w, h, s, galaxy_centers)
        rule3 == ExcludeUnreachableGalaxies(w, h, s, galaxy_centers)
        rule4 == RemoveImpossibleGalaxyMirrors(w, h, s, galaxy_centers)
        rule5 == AssumeFrom(w, h, s, galaxy_centers,
                            Assumptions(w, h, s, galaxy_centers), 1)
        first_change ==
            IF rule1.err \/ rule1.changed THEN rule1
            ELSE IF rule2.err \/ rule2.changed THEN rule2
            ELSE IF rule3.err \/ rule3.changed THEN rule3
            ELSE IF rule4.err \/ rule4.changed THEN rule4
            ELSE rule5
    IN  IF first_change.err THEN [solver |-> s, err |-> TRUE]
        ELSE IF first_change.changed
        THEN SolveOf(w, h, first_change.solver, galaxy_centers)
        ELSE [solver |-> s, err |-> FALSE]

(***************************************************************************)
(* SpecSolve: Solver::new on an objective, then solve.  Every call of      *)
(* solve has a frame on the stack: its solver, the rule its loop is at,    *)
(* how many assumptions its assume_galaxy has tried, and, for a clone, the *)
(* assumption that it was made for.                                        *)
(***************************************************************************)
Frame(s, assumed) == [solver |-> s, rule |-> 1, tried |-> 0, assumed |-> assumed]

\* The orders in which Solver::new may find the centers: objective.centers
\* is a HashSet
CenterOrders(S) ==
    IF Cardinality(S) <= MaxPermuted THEN Orders(S)
    ELSE {Ascending(S), Reverse(Ascending(S))}

\* The valid universes whose first column is a galaxy and whose last column
\* is another, around a valid universe of the columns between
FlankedGrids(w, h) ==
    {[p \in Cells(w, h) |->
         IF p[2] = 0 THEN 0
         ELSE IF p[2] = w - 1 THEN 1
         ELSE inner[<<p[1], p[2] - 1>>] + 2] : inner \in ValidGrids(w - 2, h)}

\* The grids that solve is explored on
SolveShapes == Shapes(SolveCells) \cup {<<FlankedWidth, FlankedHeight>>}

\* The half-step positions of the grid and around it, up to one cell beyond
\* its last row and its last column
NearCenters(w, h) == (0 .. 2 * h) \X (0 .. 2 * w)

\* The sets of walls that an objective is given: at most MaxWalls borders
\* of cells of the grid, the frame included, and at least one
WallChoices(w, h) ==
    {placed \in SUBSET (FrameBorders(w, h) \cup InteriorBorders(w, h)) :
        Cardinality(placed) \in 1 .. MaxWalls}

\* Solver::new panics when a cell around a center is not in the grid: it
\* unwraps the candidates of the cell
SolverNewPanics(w, h, galaxy_centers) ==
    \E i \in DOMAIN galaxy_centers :
        ~(CenterPositions(galaxy_centers[i]) \subseteq Cells(w, h))

\* Solver::new(width, height, objective), followed by solve unless it panics
NewSolver(solvers, ending, panic, galaxy_centers) ==
    IF SolverNewPanics(width, height, galaxy_centers)
    THEN solvers = <<>> /\ ending = "panicked" /\ panic = TRUE
    ELSE /\ solvers = <<Frame(SolverNew(width, height, galaxy_centers, walls), <<>>)>>
         /\ ending = "running"
         /\ panic = FALSE

\* The objective that Solver::new is given, and the grid
ObjectiveGiven ==
    \/ /\ origin = "universe"
       /\ \E shape \in SolveShapes :
             /\ width = shape[1]
             /\ height = shape[2]
       /\ \/ <<width, height>> \in Shapes(SolveCells) /\ grid \in ValidGrids(width, height)
          \/ <<width, height>> = <<FlankedWidth, FlankedHeight>> /\ grid \in FlankedGrids(width, height)
       /\ centers \in CenterOrders(ObjectiveGenerate([grid |-> grid, failed |-> FALSE]))
       /\ walls = {}
    \/ /\ origin = "centers"
       /\ \E shape \in Shapes(CentersCells) :
             /\ width = shape[1]
             /\ height = shape[2]
       /\ grid = NewGrid(width, height)
       /\ \E S \in SUBSET InsideCenters(width, height) :
             /\ Cardinality(S) <= MaxCenters
             /\ centers \in CenterOrders(S)
       /\ walls = {}
    \/ /\ origin = "invalid"
       /\ \E shape \in (0 .. MaxWidth) \X (0 .. MaxHeight) :
             /\ shape[1] * shape[2] <= CentersCells
             /\ width = shape[1]
             /\ height = shape[2]
       /\ grid = NewGrid(width, height)
       /\ \E S \in SUBSET NearCenters(width, height) :
             /\ Cardinality(S) <= InvalidCenters
             /\ ~(width > 0 /\ height > 0 /\ S \subseteq InsideCenters(width, height))
             /\ centers \in CenterOrders(S)
       /\ walls = {}
    \/ /\ origin = "walls"
       /\ \E shape \in Shapes(CentersCells) :
             /\ width = shape[1]
             /\ height = shape[2]
       /\ grid = NewGrid(width, height)
       /\ walls \in WallChoices(width, height)
       /\ \E S \in SUBSET InsideCenters(width, height) :
             /\ Cardinality(S) <= WalledCenters
             /\ centers \in CenterOrders(S)

InitSolve ==
    /\ ObjectiveGiven
    /\ NewSolver(stack, outcome, panicked, centers)
    /\ first = <<>>
    /\ NoBoard
    /\ NoGame
    /\ result = "none"
    /\ NoRemoval
    /\ NoGenerate

Top == stack[Len(stack)]

\* Every Err(Contradiction) ends the outermost solve
ContradictedToCaller == outcome' = "contradiction" /\ stack' = stack

\* The assume_galaxy that keeps the borders its clone has labelled
ContradictedKeepingBorders ==
    IF Len(stack) = 1
    THEN outcome' = "contradiction" /\ stack' = stack
    ELSE /\ stack' = [i \in 1 .. Len(stack) - 1 |->
                        IF i < Len(stack) - 1 THEN stack[i]
                        ELSE [solver |->
                                 [borders |-> Top.solver.borders,
                                  possible_galaxy_ids |->
                                     Refute(stack[i].solver, Top.assumed[1],
                                            Top.assumed[2]).possible_galaxy_ids],
                              rule |-> 1,
                              tried |-> 0,
                              assumed |-> stack[i].assumed]]
         /\ outcome' = outcome

\* solve returns Err(Contradiction): to the caller of the outermost solve, or
\* to the assume_galaxy that made the clone, which removes the candidate from
\* its own solver and returns Ok(true)
Contradicted ==
    IF Len(stack) = 1
    THEN outcome' = "contradiction" /\ stack' = stack
    ELSE /\ stack' = [i \in 1 .. Len(stack) - 1 |->
                        IF i < Len(stack) - 1 THEN stack[i]
                        ELSE [solver |-> Refute(stack[i].solver, Top.assumed[1], Top.assumed[2]),
                              rule |-> 1,
                              tried |-> 0,
                              assumed |-> stack[i].assumed]]
         /\ outcome' = outcome

\* The loop of solve after a rule: ? on Err, continue on Ok(true), the next
\* rule on Ok(false)
Conclude(o) ==
    IF o.err THEN Contradicted
    ELSE /\ stack' = [stack EXCEPT ![Len(stack)] =
                        [solver |-> o.solver,
                         rule |-> IF o.changed THEN 1 ELSE @.rule + 1,
                         tried |-> 0,
                         assumed |-> @.assumed]]
         /\ outcome' = outcome

Unsolved == UNCHANGED <<width, height, grid, panicked, result, removal, iteration,
                        branch, next_universes, started, pc, origin, centers, walls, error, history, first,
                        board, the_galaxy, returned>>

AddBordersBetweenKnownGalaxiesStep ==
    /\ outcome = "running"
    /\ Top.rule = 1
    /\ Conclude(AddBordersBetweenKnownGalaxies(width, height, Top.solver))
    /\ Unsolved

MirrorBordersStep ==
    /\ outcome = "running"
    /\ Top.rule = 2
    /\ Conclude(MirrorBorders(width, height, Top.solver, centers))
    /\ Unsolved

ExcludeUnreachableGalaxiesStep ==
    /\ outcome = "running"
    /\ Top.rule = 3
    /\ Conclude(ExcludeUnreachableGalaxies(width, height, Top.solver, centers))
    /\ Unsolved

RemoveImpossibleGalaxyMirrorsStep ==
    /\ outcome = "running"
    /\ Top.rule = 4
    /\ Conclude(RemoveImpossibleGalaxyMirrors(width, height, Top.solver, centers))
    /\ Unsolved

\* assume_galaxy clones the solver for its next assumption and solves the clone
AssumeGalaxy ==
    /\ outcome = "running"
    /\ Top.rule = 5
    /\ LET assumptions == Assumptions(width, height, Top.solver, centers)
       IN  /\ Top.tried < Len(assumptions)
           /\ stack' = [stack EXCEPT ![Len(stack)].tried = @ + 1]
                       \o <<Frame(Assume(Top.solver,
                                         assumptions[Top.tried + 1][1],
                                         assumptions[Top.tried + 1][2]),
                                  assumptions[Top.tried + 1])>>
    /\ outcome' = outcome
    /\ Unsolved

\* assume_galaxy has no assumption left and returns Ok(false); solve breaks
\* out of its loop and returns Ok
SolveReturns ==
    /\ outcome = "running"
    /\ Top.rule = 5
    /\ Top.tried = Len(Assumptions(width, height, Top.solver, centers))
    /\ IF Len(stack) = 1
       THEN outcome' = "ok" /\ stack' = stack
       ELSE outcome' = outcome /\ stack' = SubSeq(stack, 1, Len(stack) - 1)
    /\ Unsolved

NextSolve ==
    \/ AddBordersBetweenKnownGalaxiesStep
    \/ MirrorBordersStep
    \/ ExcludeUnreachableGalaxiesStep
    \/ RemoveImpossibleGalaxyMirrorsStep
    \/ AssumeGalaxy
    \/ SolveReturns

SpecSolve == InitSolve /\ [][NextSolve]_vars

\* The scheduling of a sequential program: a call that can take a step takes it
SpecSolveFair == SpecSolve /\ WF_vars(NextSolve)

\* Solution.borders of the outermost solve
Solution == GetBorders(stack[1].solver)

(***************************************************************************)
(* SpecSolveTwice: the same objective solved a second time, by a new       *)
(* solver that may find the centers of the HashSet in another order.       *)
(***************************************************************************)
SolveAgain ==
    /\ outcome # "running"
    /\ first = <<>>
    /\ first' = <<[centers |-> centers,
                    outcome |-> outcome,
                    walls |-> IF outcome = "ok" THEN Solution ELSE {}]>>
    /\ centers' \in CenterOrders({centers[i] : i \in DOMAIN centers})
    /\ NewSolver(stack', outcome', panicked', centers')
    /\ UNCHANGED <<width, height, grid, result, removal, iteration,
                   branch, next_universes, started, pc, origin, walls, error, history,
                   board, the_galaxy, returned>>

NextSolveTwice == NextSolve \/ SolveAgain

SpecSolveTwice == InitSolve /\ [][NextSolveTwice]_vars

(***************************************************************************)
(* SpecNew: Solver::new alone, on the same objectives.                     *)
(***************************************************************************)
InitNew ==
    /\ ObjectiveGiven
    /\ stack = <<>>
    /\ outcome = "none"
    /\ panicked = FALSE
    /\ first = <<>>
    /\ NoBoard
    /\ NoGame
    /\ result = "none"
    /\ NoRemoval
    /\ NoGenerate

\* Solver::new returns the solver, or panics
SolverNewReturns ==
    /\ outcome = "none"
    /\ NewSolver(stack', outcome', panicked', centers)
    /\ UNCHANGED <<width, height, grid, result, removal, iteration, branch,
                   next_universes, started, pc, origin, centers, walls, error, history, first,
                   board, the_galaxy, returned>>

NextNew == SolverNewReturns

SpecNew == InitNew /\ [][NextNew]_vars

(***************************************************************************)
(* Board: the frame and the walls that a player has put.                   *)
(***************************************************************************)
\* boards are explored on grids of at most this many cells
BoardCells == 4
\* with at most this many borders toggled after Board::new
MaxToggles == 2
\* and with the walls of every valid universe of at most this many cells
SolvedCells == 6

BoardNew(w, h) == [width |-> w, height |-> h, borders |-> FrameBorders(w, h)]

GetWidth(b) == b.width

GetHeight(b) == b.width

BoardContains(b, p) == p[1] >= 0 /\ p[1] < b.height /\ p[2] >= 0 /\ p[2] < b.width

GetPositions(b) == Cells(b.width, b.height)

IsActive(b, border) == border \in b.borders

IsWall(b, p1, p2) == BorderNew(p1, p2) \in b.borders

\* toggle_wall: remove_wall when there is a wall, add_wall otherwise
ToggleWall(b, p1, p2) ==
    IF IsWall(b, p1, p2)
    THEN [b EXCEPT !.borders = @ \ {BorderNew(p1, p2)}]
    ELSE [b EXCEPT !.borders = @ \cup {BorderNew(p1, p2)}]

RECURSIVE ToggleAll(_, _)
ToggleAll(b, toggled) ==
    IF toggled = {} THEN b
    ELSE LET border == CHOOSE x \in toggled : TRUE
         IN  ToggleAll(ToggleWall(b, border[1], border[2]), toggled \ {border})

\* The cells that the queue of get_galaxies reaches from the cells seen
RECURSIVE Component(_, _)
Component(b, seen) ==
    LET more == {q \in GetPositions(b) \ seen :
                    \E p \in seen : q \in PositionAdjacent(p) /\ ~IsWall(b, p, q)}
    IN  IF more = {} THEN seen ELSE Component(b, seen \cup more)

\* A get_galaxies for which no wall parts two cells
BoardGetGalaxiesWithoutWalls(b) ==
    IF GetPositions(b) = {} THEN {} ELSE {GetPositions(b)}

BoardGetGalaxies(b) == {Component(b, {p}) : p \in GetPositions(b)}

\* A border between two cells of the same row is a vertical line
IsVertical(border) == border[1][1] = border[2][1]

\* A border is dangling only when both of its ends are loose
IsDanglingAtBothEnds(b, border) ==
    LET p1 == border[1]
        p2 == border[2]
    IN  IF IsVertical(border)
        THEN /\ /\ p1[1] # 0
                /\ ~IsWall(b, p1, Up(p1))
                /\ ~IsWall(b, Up(p1), Up(p2))
                /\ ~IsWall(b, Up(p2), p2)
             /\ /\ p1[1] # b.height - 1
                /\ ~IsWall(b, p1, Down(p1))
                /\ ~IsWall(b, Down(p1), Down(p2))
                /\ ~IsWall(b, Down(p2), p2)
        ELSE /\ /\ p1[2] # 0
                /\ ~IsWall(b, p1, Left(p1))
                /\ ~IsWall(b, Left(p1), Left(p2))
                /\ ~IsWall(b, Left(p2), p2)
             /\ /\ p1[2] # b.width - 1
                /\ ~IsWall(b, p1, Right(p1))
                /\ ~IsWall(b, Right(p1), Right(p2))
                /\ ~IsWall(b, Right(p2), p2)

IsDangling(b, border) ==
    LET p1 == border[1]
        p2 == border[2]
    IN  IF IsVertical(border)
        THEN \/ /\ p1[1] # 0
                /\ ~IsWall(b, p1, Up(p1))
                /\ ~IsWall(b, Up(p1), Up(p2))
                /\ ~IsWall(b, Up(p2), p2)
             \/ /\ p1[1] # b.height - 1
                /\ ~IsWall(b, p1, Down(p1))
                /\ ~IsWall(b, Down(p1), Down(p2))
                /\ ~IsWall(b, Down(p2), p2)
        ELSE \/ /\ p1[2] # 0
                /\ ~IsWall(b, p1, Left(p1))
                /\ ~IsWall(b, Left(p1), Left(p2))
                /\ ~IsWall(b, Left(p2), p2)
             \/ /\ p1[2] # b.width - 1
                /\ ~IsWall(b, p1, Right(p1))
                /\ ~IsWall(b, Right(p1), Right(p2))
                /\ ~IsWall(b, Right(p2), p2)

GetDanglingBorders(b) == {border \in b.borders : IsDangling(b, border)}

\* Position::get_center_placement: "Center", "VerticalBorder",
\* "HorizontalBorder" or "Intersection"
GetCenterPlacement(center) ==
    IF center[1] % 2 = 0
    THEN IF center[2] % 2 = 0 THEN "Center" ELSE "VerticalBorder"
    ELSE IF center[2] % 2 = 0 THEN "HorizontalBorder" ELSE "Intersection"

IsCenterCut(b, center) ==
    LET top_left == FirstCell(CenterPositions(center))
    IN  CASE GetCenterPlacement(center) = "Center" -> FALSE
          [] GetCenterPlacement(center) = "VerticalBorder" ->
                IsActive(b, BorderRight(top_left))
          [] GetCenterPlacement(center) = "HorizontalBorder" ->
                IsActive(b, BorderDown(top_left))
          [] OTHER ->
                LET top_right == Right(top_left)
                    bottom_left == Down(top_left)
                    bottom_right == Down(Right(top_left))
                IN  \/ IsWall(b, top_left, top_right)
                    \/ IsWall(b, top_right, bottom_right)
                    \/ IsWall(b, bottom_right, bottom_left)
                    \/ IsWall(b, top_left, bottom_left)

\* The GalaxyCenters of an Objective::generate that sets their sizes
GalaxyCentersWithSizes(u) ==
    {[position |-> Center(g), size |-> <<Cardinality(g)>>] : g \in GetGalaxies(u)}

\* Objective::generate with its GalaxyCenters: size is None, written <<>>
GalaxyCenters(u) == {[position |-> Center(g), size |-> <<>>] : g \in GetGalaxies(u)}

\* Objective::generate: centers is a HashSet, walls is empty
ObjectiveOf(u) == [centers |-> GalaxyCenters(u), walls |-> {}]

ComputeError(b, objective_centers) ==
    LET galaxies == BoardGetGalaxies(b)
        galaxy_by_objective_center(gc) ==
            CHOOSE g \in galaxies : FirstCell(CenterPositions(gc.position)) \in g
    IN  [dangling_borders |-> GetDanglingBorders(b),
         incorrect_galaxy_sizes |->
            {gc.position : gc \in
                {c \in objective_centers :
                    /\ c.size # <<>>
                    /\ Cardinality(galaxy_by_objective_center(c)) # c.size[1]}},
         centerless_cells |->
            GetPositions(b) \
                UNION {galaxy_by_objective_center(gc) : gc \in objective_centers},
         cut_centers |->
            {gc.position : gc \in
                {c \in objective_centers : IsCenterCut(b, c.position)}},
         asymmetric_centers |->
            {gc.position : gc \in
                {c \in objective_centers :
                    \/ Center(galaxy_by_objective_center(c)) # c.position
                    \/ ~IsValid(galaxy_by_objective_center(c))}}]

\* The glyphs are written by the names that Unicode gives them (BOX DRAWINGS
\* LIGHT ...); "HORIZONTAL" is also the dash that follows a glyph with a right
\* arm
Bars(top, right, bottom, left) ==
    CASE ~top /\ ~right /\ ~bottom /\ ~left -> <<" ", " ">>
      [] ~top /\ ~right /\ ~bottom /\ left -> <<"LEFT", " ">>
      [] ~top /\ ~right /\ bottom /\ ~left -> <<"DOWN", " ">>
      [] ~top /\ ~right /\ bottom /\ left -> <<"DOWN AND LEFT", " ">>
      [] ~top /\ right /\ ~bottom /\ ~left -> <<"RIGHT", "HORIZONTAL">>
      [] ~top /\ right /\ ~bottom /\ left -> <<"HORIZONTAL", "HORIZONTAL">>
      [] ~top /\ right /\ bottom /\ ~left -> <<"DOWN AND RIGHT", "HORIZONTAL">>
      [] ~top /\ right /\ bottom /\ left -> <<"DOWN AND HORIZONTAL", "HORIZONTAL">>
      [] top /\ ~right /\ ~bottom /\ ~left -> <<"UP", " ">>
      [] top /\ ~right /\ ~bottom /\ left -> <<"UP AND LEFT", " ">>
      [] top /\ ~right /\ bottom /\ ~left -> <<"VERTICAL", " ">>
      [] top /\ ~right /\ bottom /\ left -> <<"VERTICAL AND LEFT", " ">>
      [] top /\ right /\ ~bottom /\ ~left -> <<"UP AND RIGHT", "HORIZONTAL">>
      [] top /\ right /\ ~bottom /\ left -> <<"UP AND HORIZONTAL", "HORIZONTAL">>
      [] top /\ right /\ bottom /\ ~left -> <<"VERTICAL AND RIGHT", "HORIZONTAL">>
      [] top /\ right /\ bottom /\ left -> <<"VERTICAL AND HORIZONTAL", "HORIZONTAL">>

\* str::trim_end
RECURSIVE TrimEnd(_)
TrimEnd(line) ==
    IF line # <<>> /\ line[Len(line)] = " "
    THEN TrimEnd(SubSeq(line, 1, Len(line) - 1))
    ELSE line

RECURSIVE ResultLine(_, _, _)
ResultLine(b, row, column) ==
    IF column > b.width THEN <<>>
    ELSE LET bottom_right == <<row, column>>
             top_left == Up(Left(bottom_right))
         IN  Bars(IsActive(b, BorderRight(top_left)),
                  IsActive(b, BorderUp(bottom_right)),
                  IsActive(b, BorderLeft(bottom_right)),
                  IsActive(b, BorderDown(top_left)))
             \o ResultLine(b, row, column + 1)

\* Board::to_string: a string is the list of its characters, "\n" one of them
RECURSIVE ToStringFrom(_, _)
ToStringFrom(b, row) ==
    IF row > b.height THEN <<>>
    ELSE TrimEnd(ResultLine(b, row, 0))
         \o (IF row # b.height THEN <<"\n">> ELSE <<>>)
         \o ToStringFrom(b, row + 1)

BoardToString(b) == ToStringFrom(b, 0)

\* What there is between the line feeds of a string
RECURSIVE Split(_, _)
Split(string, line) ==
    IF string = <<>> THEN <<line>>
    ELSE IF Head(string) = "\n" THEN <<line>> \o Split(Tail(string), <<>>)
    ELSE Split(Tail(string), Append(line, Head(string)))

\* str::lines: the line feed at the end of the string starts no line
Lines(string) ==
    LET pieces == Split(string, <<>>)
    IN  IF pieces[Len(pieces)] = <<>> THEN SubSeq(pieces, 1, Len(pieces) - 1)
        ELSE pieces

\* A from_string that knows no glyph
NoArms(char) == <<FALSE, FALSE, FALSE, FALSE>>

\* The arms of a glyph: top, right, bottom, left
Arms(char) ==
    CASE char = "VERTICAL AND HORIZONTAL" -> <<TRUE, TRUE, TRUE, TRUE>>
      [] char = "VERTICAL AND RIGHT" -> <<TRUE, TRUE, TRUE, FALSE>>
      [] char = "UP AND HORIZONTAL" -> <<TRUE, TRUE, FALSE, TRUE>>
      [] char = "UP AND RIGHT" -> <<TRUE, TRUE, FALSE, FALSE>>
      [] char = "VERTICAL AND LEFT" -> <<TRUE, FALSE, TRUE, TRUE>>
      [] char = "VERTICAL" -> <<TRUE, FALSE, TRUE, FALSE>>
      [] char = "UP AND LEFT" -> <<TRUE, FALSE, FALSE, TRUE>>
      [] char = "UP" -> <<TRUE, FALSE, FALSE, FALSE>>
      [] char = "DOWN AND HORIZONTAL" -> <<FALSE, TRUE, TRUE, TRUE>>
      [] char = "DOWN AND RIGHT" -> <<FALSE, TRUE, TRUE, FALSE>>
      [] char = "HORIZONTAL" -> <<FALSE, TRUE, FALSE, TRUE>>
      [] char = "RIGHT" -> <<FALSE, TRUE, FALSE, FALSE>>
      [] char = "DOWN AND LEFT" -> <<FALSE, FALSE, TRUE, TRUE>>
      [] char = "DOWN" -> <<FALSE, FALSE, TRUE, FALSE>>
      [] char = "LEFT" -> <<FALSE, FALSE, FALSE, TRUE>>
      [] OTHER -> <<FALSE, FALSE, FALSE, FALSE>>

\* Board::from_string.  width and height are usize: on a first line without
\* characters, or on no line at all, the subtraction overflows, which panics
\* where overflow is checked and wraps where it is not: to usize::MAX / 2 of
\* the wasm32 target for the width, and to usize::MAX, written -1, for the
\* height
FromString(string, overflow_checks) ==
    LET lines == Lines(string)
        overflows == lines = <<>> \/ lines[1] = <<>>
    IN  IF overflows /\ overflow_checks THEN [panicked |-> TRUE]
        ELSE [panicked |-> FALSE,
              board |->
                [width |-> IF lines = <<>> THEN 1
                           ELSE IF lines[1] = <<>> THEN 2147483647
                           ELSE (Len(lines[1]) - 1) \div 2,
                 height |-> Len(lines) - 1,
                 borders |->
                    UNION {UNION {
                        LET char == lines[row + 1][2 * column + 1]
                            bottom_right == <<row, column>>
                        IN  (IF Arms(char)[2] THEN {BorderUp(bottom_right)} ELSE {})
                            \cup (IF Arms(char)[3] THEN {BorderLeft(bottom_right)} ELSE {})
                        : column \in 0 .. (Len(lines[row + 1]) + 1) \div 2 - 1}
                        : row \in 0 .. Len(lines) - 1}]]

(***************************************************************************)
(* SpecBoard: the board of a game, made for a generated universe and then  *)
(* toggled by the player or filled with the walls of the universe, and one *)
(* of its methods called.                                                  *)
(***************************************************************************)
\* GameState::generate with GENERATE_SOLVED: Board::new and the borders of
\* the galaxies that are between two cells of the board
SolvedBoard(w, h, u) ==
    [BoardNew(w, h) EXCEPT !.borders =
        @ \cup {border \in InteriorBorders(w, h) : u.grid[border[1]] # u.grid[border[2]]}]

\* The borders that toggle_border can be called with: between two cells of
\* the grid, or of the ring of positions around it
NearBorders(w, h) ==
    LET near == (-1 .. h) \X (-1 .. w)
    IN  {BorderNew(p, q) : p \in near, q \in near} \cap
        {border \in near \X near : border[2] \in PositionAdjacent(border[1])}

RECURSIVE SubsetsUpTo(_, _)
SubsetsUpTo(S, n) ==
    IF n = 0 THEN {{}}
    ELSE LET smaller == SubsetsUpTo(S, n - 1)
         IN  smaller \cup {T \cup {x} : T \in smaller, x \in S}

InitBoard ==
    /\ \E s \in Shapes(SolvedCells) : width = s[1] /\ height = s[2]
    /\ grid \in ValidGrids(width, height)
    /\ panicked = FALSE
    /\ board \in
          {SolvedBoard(width, height, U)} \cup
          (IF width * height <= BoardCells
           THEN {ToggleAll(BoardNew(width, height), toggled) :
                    toggled \in SubsetsUpTo(NearBorders(width, height), MaxToggles)}
           ELSE {})
    /\ the_galaxy = <<>>
    /\ returned = <<>>
    /\ NoGame
    /\ result = "none"
    /\ NoRemoval
    /\ NoGenerate
    /\ NoSolver

Returns(method, value) ==
    /\ returned' = <<[method |-> method, value |-> value]>>
    /\ UNCHANGED <<width, height, grid, panicked, result, removal, iteration, branch,
                   next_universes, started, pc, origin, centers, walls, error, history, stack, outcome, first,
                   board, the_galaxy>>

\* GameState::check_solution
ComputeErrorReturns ==
    /\ board # <<>>
    /\ returned = <<>>
    /\ Returns("compute_error", ComputeError(board, GalaxyCenters(U)))

GetHeightReturns ==
    /\ board # <<>>
    /\ returned = <<>>
    /\ Returns("get_height", GetHeight(board))

ToStringReturns ==
    /\ board # <<>>
    /\ returned = <<>>
    /\ Returns("to_string", BoardToString(board))

\* Board::from_string on the string that to_string returned
FromStringReturns ==
    /\ returned # <<>>
    /\ returned[1].method = "to_string"
    /\ \E overflow_checks \in BOOLEAN :
          Returns("from_string", FromString(returned[1].value, overflow_checks))

NextBoard ==
    \/ ComputeErrorReturns
    \/ GetHeightReturns
    \/ ToStringReturns
    \/ FromStringReturns

SpecBoard == InitBoard /\ [][NextBoard]_vars

(***************************************************************************)
(* Galaxy: its center, its rectangles and its skeleton.                    *)
(***************************************************************************)
\* the galaxies are the sets of cells of a grid of this width and height
GalaxyWidth == 5
GalaxyHeight == 3

\* Rectangle: [min_row, max_row) x [min_column, max_column)
Rectangle(min_row, max_row, min_column, max_column) ==
    [min_row |-> min_row, max_row |-> max_row,
     min_column |-> min_column, max_column |-> max_column]

RectangleDefault == Rectangle(0, 0, 0, 0)

Area(rect) == (rect.max_row - rect.min_row) * (rect.max_column - rect.min_column)

RectanglePositions(rect) ==
    (rect.min_row .. rect.max_row - 1) \X (rect.min_column .. rect.max_column - 1)

\* rectangles_internal, first loop over the columns of a row: a height that
\* is kept where the galaxy has no cell
HeightsKept(positions, row, col_height) ==
    [col \in DOMAIN col_height |->
        IF <<row, col>> \in positions THEN col_height[col] + 1 ELSE col_height[col]]

\* rectangles_internal, first loop over the columns of a row
Heights(positions, row, col_height) ==
    [col \in DOMAIN col_height |->
        IF <<row, col>> \in positions THEN col_height[col] + 1 ELSE 0]

\* rectangles_internal, second loop, from col on
RECURSIVE Lefts(_, _, _, _, _, _)
Lefts(positions, row, col, max_col, left, current_left) ==
    IF col >= max_col THEN left
    ELSE IF <<row, col>> \in positions
         THEN Lefts(positions, row, col + 1, max_col,
                    [left EXCEPT ![col] = Max({@, current_left})], current_left)
         ELSE Lefts(positions, row, col + 1, max_col,
                    [left EXCEPT ![col] = 0], col + 1)

\* rectangles_internal, third loop, from col down
RECURSIVE Rights(_, _, _, _, _, _, _)
Rights(positions, row, col, min_col, max_col, right, current_right) ==
    IF col < min_col THEN right
    ELSE IF <<row, col>> \in positions
         THEN Rights(positions, row, col - 1, min_col, max_col,
                     [right EXCEPT ![col] = Min({@, current_right})], current_right)
         ELSE Rights(positions, row, col - 1, min_col, max_col,
                     [right EXCEPT ![col] = max_col], col)

\* rectangles_internal, fourth loop, from col on: the first rectangle of the
\* largest area
RECURSIVE Largest(_, _, _, _, _, _, _)
Largest(row, col, max_col, col_height, left, right, max_rectangle) ==
    IF col >= max_col THEN max_rectangle
    ELSE LET rect == Rectangle(row - col_height[col] + 1, row + 1, left[col], right[col])
         IN  Largest(row, col + 1, max_col, col_height, left, right,
                     IF Area(rect) > Area(max_rectangle) THEN rect ELSE max_rectangle)

\* rectangles_internal, the loop over the rows, from row on
RECURSIVE MaxRectangle(_, _, _, _, _, _, _, _, _)
MaxRectangle(positions, row, max_row, min_col, max_col, col_height, left, right, biggest) ==
    IF row >= max_row THEN biggest
    ELSE LET heights == Heights(positions, row, col_height)
             lefts == Lefts(positions, row, min_col, max_col, left, min_col)
             rights == Rights(positions, row, max_col - 1, min_col, max_col, right, max_col)
         IN  MaxRectangle(positions, row + 1, max_row, min_col, max_col,
                          heights, lefts, rights,
                          Largest(row, min_col, max_col, heights, lefts, rights,
                                  biggest))

RECURSIVE RectanglesInternal(_)
RectanglesInternal(positions) ==
    IF positions = {} THEN <<>>
    ELSE LET min_col == Min({p[2] : p \in positions})
             min_row == Min({p[1] : p \in positions})
             max_col == Max({p[2] : p \in positions}) + 1
             max_row == Max({p[1] : p \in positions}) + 1
             max_rectangle ==
                MaxRectangle(positions, min_row, max_row, min_col, max_col,
                             [col \in min_col .. max_col - 1 |-> 0],
                             [col \in min_col .. max_col - 1 |-> min_col],
                             [col \in min_col .. max_col - 1 |-> max_col],
                             RectangleDefault)
         IN  Append(RectanglesInternal(positions \ RectanglePositions(max_rectangle)),
                    max_rectangle)

Rectangles(g) == RectanglesInternal(g)

IsMirrorSymmetric(g) ==
    LET center == Center(g)
    IN  \A p \in g : <<p[1], center[2] - p[2]>> \in g

\* A find that does not look at the cell between the two neighbours
IsCorner(skeleton, center_positions, position) ==
    LET n == Up(position) \in skeleton
        w == Left(position) \in skeleton
        s == Down(position) \in skeleton
        e == Right(position) \in skeleton
    IN  /\ position \notin center_positions
        /\ \/ n /\ w /\ ~s /\ ~e
           \/ n /\ ~w /\ ~s /\ e
           \/ ~n /\ w /\ s /\ ~e
           \/ ~n /\ ~w /\ s /\ e

\* get_skeleton, the first find: two neighbours around a corner and the cell
\* between them
IsFatCorner(skeleton, center_positions, position) ==
    LET north == Up(position)
        west == Left(position)
        south == Down(position)
        east == Right(position)
        n == north \in skeleton
        w == west \in skeleton
        s == south \in skeleton
        e == east \in skeleton
    IN  /\ position \notin center_positions
        /\ \/ n /\ w /\ ~s /\ ~e /\ Left(north) \in skeleton
           \/ n /\ ~w /\ ~s /\ e /\ Right(north) \in skeleton
           \/ ~n /\ w /\ s /\ ~e /\ Left(south) \in skeleton
           \/ ~n /\ ~w /\ s /\ e /\ Right(south) \in skeleton

\* get_skeleton, the second find: three neighbours and the two cells between
\* them
IsFatSide(skeleton, center_positions, position) ==
    LET north == Up(position)
        west == Left(position)
        south == Down(position)
        east == Right(position)
        n == north \in skeleton
        w == west \in skeleton
        s == south \in skeleton
        e == east \in skeleton
    IN  /\ position \notin center_positions
        /\ \/ ~n /\ w /\ s /\ e /\ Left(south) \in skeleton /\ Right(south) \in skeleton
           \/ n /\ ~w /\ s /\ e /\ Right(north) \in skeleton /\ Right(south) \in skeleton
           \/ n /\ w /\ ~s /\ e /\ Left(north) \in skeleton /\ Right(north) \in skeleton
           \/ n /\ w /\ s /\ ~e /\ Left(north) \in skeleton /\ Left(south) \in skeleton

\* get_skeleton: what goes with a fat cell
RemoveFat(skeleton, center, mirror_symmetric, fat) ==
    LET diagonal_mirror == MirrorPosition(center, fat)
        horizontal_mirror == <<fat[1], diagonal_mirror[2]>>
        vertical_mirror == <<diagonal_mirror[1], fat[2]>>
    IN  IF /\ mirror_symmetric
           /\ horizontal_mirror \notin PositionAdjacent(fat)
           /\ vertical_mirror \notin PositionAdjacent(fat)
        THEN skeleton \ {fat, diagonal_mirror, horizontal_mirror, vertical_mirror}
        ELSE skeleton \ {fat, diagonal_mirror}

RECURSIVE SkeletonLoop(_, _, _, _)
SkeletonLoop(skeleton, center, center_positions, mirror_symmetric) ==
    LET corners == {p \in skeleton : IsFatCorner(skeleton, center_positions, p)}
        sides == {p \in skeleton : IsFatSide(skeleton, center_positions, p)}
    IN  IF corners # {}
        THEN SkeletonLoop(RemoveFat(skeleton, center, mirror_symmetric, FirstCell(corners)),
                          center, center_positions, mirror_symmetric)
        ELSE IF sides # {}
        THEN SkeletonLoop(RemoveFat(skeleton, center, mirror_symmetric, FirstCell(sides)),
                          center, center_positions, mirror_symmetric)
        ELSE skeleton

GetSkeleton(g) ==
    SkeletonLoop(g, Center(g), CenterPositions(Center(g)), IsMirrorSymmetric(g))

\* Position::adjacent as a list: the four axis-adjacent positions in the
\* order the permutation gives
AdjacentList(p, order) ==
    LET around == <<Up(p), Down(p), Left(p), Right(p)>>
    IN  [i \in 1 .. 4 |-> around[order[i]]]

\* The orders Position::adjacent may list the four positions in
AdjacentOrders == Orders(1 .. 4)

\* Galaxy::get_neighbours: the adjacent positions that belong to the galaxy,
\* in the order of Position::adjacent
GetNeighbours(g, p, order) == SelectSeq(AdjacentList(p, order), LAMBDA n : n \in g)

\* The largest distance of the neighbours that have one
MaxNeighbourDistance(known) == Max(known)

\* The smallest distance of the neighbours that have one
MinNeighbourDistance(known) == Min(known)

\* The loop of get_hamming_distances: pop the front of the queue, skip a
\* position that has a distance, give the position the smallest distance of
\* its neighbours plus one (unwrap panics when no neighbour has a distance)
\* and push the neighbours without a distance at the back
RECURSIVE HammingLoop(_, _, _, _)
HammingLoop(g, order, queue, hamming_distances) ==
    IF queue = <<>> THEN [panicked |-> FALSE, distances |-> hamming_distances]
    ELSE LET p == Head(queue) IN
         IF p \in DOMAIN hamming_distances
         THEN HammingLoop(g, order, Tail(queue), hamming_distances)
         ELSE LET neighbours == GetNeighbours(g, p, order)
                  known == {hamming_distances[neighbours[i]] :
                               i \in {j \in 1 .. Len(neighbours) :
                                         neighbours[j] \in DOMAIN hamming_distances}}
              IN  IF known = {}
                  THEN [panicked |-> TRUE, distances |-> hamming_distances]
                  ELSE HammingLoop(g, order,
                           Tail(queue) \o SelectSeq(neighbours,
                               LAMBDA n : n \notin DOMAIN hamming_distances),
                           [q \in DOMAIN hamming_distances \cup {p} |->
                               IF q = p THEN MinNeighbourDistance(known) + 1
                               ELSE hamming_distances[q]])

\* Galaxy::get_hamming_distances: the cells around the center get 0 and their
\* neighbours start the queue
GetHammingDistances(g, order) ==
    LET footprint == Ascending(CenterPositions(Center(g)))
    IN  HammingLoop(g, order,
                    Flatten([i \in 1 .. Len(footprint) |->
                                GetNeighbours(g, footprint[i], order)]),
                    [p \in CenterPositions(Center(g)) |-> 0])

(***************************************************************************)
(* SpecGalaxy: a galaxy of any cells of a grid, and one of its methods     *)
(* called.                                                                 *)
(***************************************************************************)
InitGalaxy ==
    /\ width = GalaxyWidth
    /\ height = GalaxyHeight
    /\ grid = NewGrid(width, height)
    /\ panicked = FALSE
    /\ board = <<>>
    /\ \E g \in SUBSET Cells(width, height) : the_galaxy = <<g>>
    /\ returned = <<>>
    /\ NoGame
    /\ result = "none"
    /\ NoRemoval
    /\ NoGenerate
    /\ NoSolver

CenterReturns ==
    /\ the_galaxy # <<>>
    /\ returned = <<>>
    /\ Returns("center", Center(the_galaxy[1]))

RectanglesReturns ==
    /\ the_galaxy # <<>>
    /\ returned = <<>>
    /\ Returns("rectangles", Rectangles(the_galaxy[1]))

GetSkeletonReturns ==
    /\ the_galaxy # <<>>
    /\ returned = <<>>
    /\ Returns("get_skeleton", GetSkeleton(the_galaxy[1]))

\* Galaxy::get_hamming_distances, whatever order Position::adjacent lists the
\* positions in
GetHammingDistancesReturns ==
    /\ the_galaxy # <<>>
    /\ returned = <<>>
    /\ \E order \in AdjacentOrders :
           Returns("get_hamming_distances", GetHammingDistances(the_galaxy[1], order))

NextGalaxy ==
    \/ CenterReturns
    \/ RectanglesReturns
    \/ GetSkeletonReturns
    \/ GetHammingDistancesReturns

SpecGalaxy == InitGalaxy /\ [][NextGalaxy]_vars

(***************************************************************************)
(* GameState: a generated universe, its objective, the board of the        *)
(* player, the error of the last check and the history of the toggles.     *)
(***************************************************************************)
\* the games are generated with at most this size
MaxSize == 2
\* and the player undoes at most this many toggles
MaxHistory == 2

\* BoardError::is_error_free: the report names nothing
IsErrorFree(e) ==
    /\ e.dangling_borders = {}
    /\ e.incorrect_galaxy_sizes = {}
    /\ e.centerless_cells = {}
    /\ e.cut_centers = {}
    /\ e.asymmetric_centers = {}

\* GameState.objective.centers: the centers, none with a size
ObjectiveCenters == {[position |-> centers[i], size |-> <<>>] : i \in DOMAIN centers}

\* StateView::from: is_solved
IsSolved == error # <<>> /\ IsErrorFree(error[1])

\* self.error = None
ErrorKept == error

ErrorNone == <<>>

\* GameState::generate: the board of the frame and of the borders of the
\* solution between two cells, whatever order Solver::new finds the centers
\* of the HashSet in; unwrap panics when solve returns Contradiction
InitGame ==
    /\ \E size \in 1 .. MaxSize : width = size /\ height = size
    /\ grid \in ValidGrids(width, height)
    /\ panicked = FALSE
    /\ origin = "universe"
    /\ centers = Ascending(ObjectiveGenerate([grid |-> grid, failed |-> FALSE]))
    /\ walls = {}
    /\ \E galaxy_centers \in CenterOrders({centers[i] : i \in DOMAIN centers}) :
          LET solution == SolveOf(width, height,
                                  SolverNew(width, height, galaxy_centers, walls),
                                  galaxy_centers)
          IN  /\ ~solution.err
              /\ board = [BoardNew(width, height) EXCEPT !.borders =
                             @ \cup (GetBorders(solution.solver)
                                         \cap InteriorBorders(width, height))]
    /\ error = <<>>
    /\ history = [past |-> <<>>, future |-> <<>>]
    /\ stack = <<>>
    /\ outcome = "none"
    /\ first = <<>>
    /\ the_galaxy = <<>>
    /\ returned = <<>>
    /\ result = "none"
    /\ NoRemoval
    /\ NoGenerate

\* GameState::toggle_border, called with a border of a cell of the board:
\* History::push drops the entries to redo; with
\* debug assertions Board::add_wall and remove_wall panic on a position that
\* is not on the board
ToggleBorder ==
    /\ ~panicked
    /\ Len(history.past) < MaxHistory
    /\ \E border \in {b \in NearBorders(width, height) :
                         BoardContains(board, b[1]) \/ BoardContains(board, b[2])} :
          \/ /\ ~(BoardContains(board, border[1]) /\ BoardContains(board, border[2]))
             /\ panicked' = TRUE
             /\ UNCHANGED <<board, error, history>>
          \/ /\ board' = ToggleWall(board, border[1], border[2])
             /\ history' = [past |-> Append(history.past, border), future |-> <<>>]
             /\ error' = ErrorNone
             /\ UNCHANGED panicked
    /\ UNCHANGED <<width, height, grid, result, removal, iteration, branch, next_universes,
                   started, pc, origin, centers, walls, stack, outcome, first,
                   the_galaxy, returned>>

\* GameState::check_solution
CheckSolution ==
    /\ ~panicked
    /\ error' = <<ComputeError(board, ObjectiveCenters)>>
    /\ UNCHANGED <<width, height, grid, panicked, result, removal, iteration, branch,
                   next_universes, started, pc, origin, centers, walls, stack, outcome,
                   first, board, the_galaxy, returned, history>>

\* GameState::undo: History::undo returns the last entry done, if any, and
\* keeps it to redo
Undo ==
    /\ ~panicked
    /\ IF history.past # <<>>
       THEN LET border == history.past[Len(history.past)]
            IN  /\ history' = [past |-> SubSeq(history.past, 1, Len(history.past) - 1),
                               future |-> <<border>> \o history.future]
                /\ board' = ToggleWall(board, border[1], border[2])
                /\ error' = ErrorNone
       ELSE UNCHANGED <<board, error, history>>
    /\ UNCHANGED <<width, height, grid, panicked, result, removal, iteration, branch,
                   next_universes, started, pc, origin, centers, walls, stack, outcome,
                   first, the_galaxy, returned>>

\* GameState::redo: History::redo returns the last entry undone, if any
Redo ==
    /\ ~panicked
    /\ IF history.future # <<>>
       THEN LET border == Head(history.future)
            IN  /\ history' = [past |-> Append(history.past, border),
                               future |-> Tail(history.future)]
                /\ board' = ToggleWall(board, border[1], border[2])
                /\ error' = ErrorNone
       ELSE UNCHANGED <<board, error, history>>
    /\ UNCHANGED <<width, height, grid, panicked, result, removal, iteration, branch,
                   next_universes, started, pc, origin, centers, walls, stack, outcome,
                   first, the_galaxy, returned>>

\* GameState::take_hint: one of the borders of the galaxies of the universe
\* that are between two cells, not walls of the objective and not on the
\* board, if there is one
TakeHint ==
    /\ ~panicked
    /\ LET hints == {border \in InteriorBorders(width, height) :
                        /\ grid[border[1]] # grid[border[2]]
                        /\ border \notin walls
                        /\ ~IsActive(board, border)}
       IN  IF hints # {}
           THEN \E border \in hints :
                   /\ board' = [board EXCEPT !.borders = @ \cup {border}]
                   /\ walls' = walls \cup {border}
                   /\ error' = ErrorNone
           ELSE UNCHANGED <<board, walls, error>>
    /\ UNCHANGED <<width, height, grid, panicked, result, removal, iteration, branch,
                   next_universes, started, pc, origin, centers, stack, outcome,
                   first, the_galaxy, returned, history>>

NextGame ==
    \/ ToggleBorder
    \/ CheckSolution
    \/ Undo
    \/ Redo
    \/ TakeHint

SpecGame == InitGame /\ [][NextGame]_vars

(***************************************************************************)
(* The generator's claims.                                                 *)
(***************************************************************************)
Single(u, p) == GetGalaxy(u, p) = {p}

\* C1: after any sequence of generate_step calls, whatever each call drew and
\* returned, every galaxy of the universe is valid: not empty, connected,
\* holding the cells around its center and symmetric about it.
GenerateStepKeepsValid == UniverseIsValid(U)

\* A successful step has grown a galaxy to four cells or more
GrownGalaxy ==
    /\ result = "true"
    /\ \E g \in GetGalaxies(U) : Cardinality(g) >= 4

\* C2: Universe::generate runs to its end without a panic, and the universe
\* it returns is valid.
GenerateNeverFails ==
    /\ ~panicked
    /\ pc = "returned" => UniverseIsValid(U)

\* The universes a successful generate_step on universe g can leave
SuccessorGrids(g) ==
    UNION {{o.universe.grid :
               o \in {o \in GenerateStep([grid |-> g, failed |-> FALSE], p1) :
                         o.success /\ ~o.universe.failed}} :
           p1 \in DOMAIN g}

\* C3: every attempt of an iteration starts from the universe as it was at
\* the start of the iteration, and the universe carried on is what a
\* successful attempt made of it, or the unchanged universe when none
\* succeeded.
BestOfBranches ==
    /\ pc = "branch" => grid = started[1]
    /\ pc = "selected" =>
          IF next_universes = <<>> THEN grid = started[1]
          ELSE grid \in SuccessorGrids(started[1])

\* C4: a generate_step call that returns false leaves the grid of
\* identifiers as it was before the call.
FailedStepKeepsGrid == [][result' = "false" => grid' = grid]_vars

\* A call has returned false although every cell has an adjacent cell of
\* another galaxy: there was no candidate for p3
FailedForP3 ==
    /\ result = "false"
    /\ \A p \in DOMAIN grid : GetAdjacentNonNeighbours(U, p) # {}

UniverseBorders ==
    {b \in InteriorBorders(width, height) : grid[b[1]] # grid[b[2]]}

\* The walls of the solution between two cells of the grid
InteriorWalls == Solution \cap InteriorBorders(width, height)

\* Every cell has exactly one candidate left
AllCertain(s) ==
    \A p \in DOMAIN s.possible_galaxy_ids : Cardinality(s.possible_galaxy_ids[p]) = 1

\* The valid galaxies of every grid that solve is explored on, as
\* (shape, center, galaxy)
GalaxiesOfShape ==
    UNION {{<<shape, Center(g), g>> : g \in ValidGalaxies(shape[1], shape[2])} :
              shape \in SolveShapes}

\* The partitions of the grid into valid galaxies that have exactly the
\* centers of the objective.  A galaxy of such a partition has none of the
\* cells around the center of another; galaxies that share no cell have
\* different centers, so a partition has every center when it has as many
\* galaxies.  Every wall of the objective is a border of the frame or lies
\* between two galaxies of the partition.
PartitionsOfObjective ==
    LET objective == {centers[i] : i \in DOMAIN centers}
        around(c) == UNION {CenterPositions(o) : o \in objective \ {c}}
        galaxies == {t[3] : t \in {t \in GalaxiesOfShape :
                                       /\ t[1] = <<width, height>>
                                       /\ t[2] \in objective
                                       /\ t[3] \cap around(t[2]) = {}}}
    IN  {P \in PartitionsOf(Cells(width, height), galaxies) :
            /\ Cardinality(P) = Cardinality(objective)
            /\ \A b \in walls \ FrameBorders(width, height) :
                  /\ b \in InteriorBorders(width, height)
                  /\ \A g \in P : ~({b[1], b[2]} \subseteq g)}

UniquePartitionSolved ==
    LET partitions == PartitionsOfObjective
    IN  (outcome # "running" /\ Cardinality(partitions) = 1) =>
        /\ outcome = "ok"
        /\ AllCertain(stack[1].solver)
        /\ \A P \in partitions :
              Solution = FrameBorders(width, height) \cup
                         {b \in InteriorBorders(width, height) :
                             ~\E g \in P : b[1] \in g /\ b[2] \in g}

\* solve has returned for an objective with one partition, which has a galaxy
\* that is not a rectangle
UniqueSolved ==
    /\ outcome = "ok"
    /\ Cardinality(PartitionsOfObjective) = 1
    /\ \E g \in GetGalaxies([grid |-> grid, failed |-> FALSE]) :
          /\ Cardinality(g) >= 4
          /\ \E p \in g, q \in g : <<p[1], q[2]>> \notin g

\* C8: solve on the objective of a valid universe does not return Contradiction.
NoContradictionForUniverse == origin = "universe" => outcome # "contradiction"

\* solve has returned Ok for the objective of a universe although it could
\* not tell the galaxy of every cell
OkButUncertain ==
    /\ origin = "universe"
    /\ outcome = "ok"
    /\ ~AllCertain(stack[1].solver)

\* Solver a has every label of solver b, and no candidate that b has not
Narrower(a, b) ==
    /\ DOMAIN b.borders \subseteq DOMAIN a.borders
    /\ \A k \in DOMAIN b.borders : a.borders[k] = b.borders[k]
    /\ \A p \in DOMAIN b.possible_galaxy_ids :
          a.possible_galaxy_ids[p] \subseteq b.possible_galaxy_ids[p]

\* Frame a comes after frame b in the loop of one solve: it has added a label
\* or removed a candidate, or it is further in the rules or the assumptions
FrameLess(a, b) ==
    \/ Narrower(a.solver, b.solver) /\ a.solver # b.solver
    \/ /\ a.solver = b.solver
       /\ a.rule > b.rule \/ (a.rule = b.rule /\ a.tried > b.tried)

\* The stack has become shorter, or the lowest frame that differs comes
\* after what it was
StackLess(a, b) ==
    \/ Len(a) < Len(b) /\ \A i \in 1 .. Len(a) : a[i] = b[i]
    \/ \E i \in 1 .. Len(b) :
          /\ i <= Len(a)
          /\ \A j \in 1 .. i - 1 : a[j] = b[j]
          /\ FrameLess(a[i], b[i])
          /\ \A j \in i + 1 .. Len(a) :
                Narrower(a[j].solver, a[j - 1].solver) /\ a[j].solver # a[j - 1].solver

\* C9: solve terminates, the solves of the clones included: every step either
\* is the return of the outermost solve, or ends the solve of a clone, or
\* moves a solve on in its loop, to a later rule or assumption with the same
\* solver or back to the first rule with a label more or a candidate less;
\* a clone starts with fewer candidates than the solver it was made from.
SolveDescends ==
    [][(outcome = "running" /\ outcome' # "running") \/ StackLess(stack', stack)]_vars

\* a clone of a clone is being solved
NestedClones == Len(stack) >= 3 /\ Top.rule > 1

\* C10: the solver of every solve in progress only narrows: a step leaves
\* every label it had as it was and adds no candidate to any cell, and a
\* clone starts from the labels and candidates of the solver it was made from.
SolverNarrows ==
    [][\A i \in 1 .. Len(stack') :
          IF i <= Len(stack) THEN Narrower(stack'[i].solver, stack[i].solver)
          ELSE Narrower(stack'[i].solver, stack[i - 1].solver)]_vars

\* a clone has labelled a border false and has removed a candidate of a cell
NarrowedClone ==
    /\ Len(stack) >= 2
    /\ \E b \in DOMAIN Top.solver.borders : ~Top.solver.borders[b]
    /\ \E p \in DOMAIN Top.solver.possible_galaxy_ids :
          Top.solver.possible_galaxy_ids[p] # stack[1].solver.possible_galaxy_ids[p]
          /\ p # Top.assumed[1]

\* C11: solve is deterministic: a second solve of the same objective, with
\* the centers found in the same or in another order, ends as the first
\* did, with Contradiction or with the same walls.
SameOnEveryRun ==
    (first # <<>> /\ outcome # "running") =>
        /\ outcome = first[1].outcome
        /\ outcome = "ok" => Solution = first[1].walls

\* a second solve, with the centers in another order, has returned walls
\* without telling the galaxy of every cell
SolvedInAnotherOrder ==
    /\ first # <<>>
    /\ outcome = "ok"
    /\ centers # first[1].centers
    /\ ~AllCertain(stack[1].solver)

\* The objective is invalid for the grid: a dimension is 0, or a cell around
\* a center is out of the grid, or a cell is around two centers
InvalidObjective ==
    \/ width = 0
    \/ height = 0
    \/ \E i \in DOMAIN centers : ~(CenterPositions(centers[i]) \subseteq Cells(width, height))
    \/ \E i \in DOMAIN centers, j \in DOMAIN centers :
          i # j /\ CenterPositions(centers[i]) \cap CenterPositions(centers[j]) # {}

\* C12: an invalid objective never gets an Ok solution: Solver::new panics
\* or solve returns Contradiction.
InvalidObjectiveRejected == InvalidObjective => outcome # "ok"

\* The rule that the solve on top of the stack is at derives a contradiction
RuleFails ==
    /\ outcome = "running"
    /\ \/ Top.rule = 1 /\ AddBordersBetweenKnownGalaxies(width, height, Top.solver).err
       \/ Top.rule = 2 /\ MirrorBorders(width, height, Top.solver, centers).err
       \/ Top.rule = 3 /\ ExcludeUnreachableGalaxies(width, height, Top.solver, centers).err
       \/ Top.rule = 4 /\ RemoveImpossibleGalaxyMirrors(width, height, Top.solver, centers).err

\* C13: a contradiction inside a clone is not returned to the caller of the
\* original solve: the solve stays running and the solver that made the
\* clone only loses the assumed identifier at the assumed cell.  The
\* original solve returns Contradiction only when a rule of its own fails.
CloneContradictionStaysInside ==
    [][/\ (RuleFails /\ Len(stack) > 1) =>
            /\ outcome' = "running"
            /\ Len(stack') = Len(stack) - 1
            /\ \A i \in 1 .. Len(stack) - 2 : stack'[i] = stack[i]
            /\ LET before == stack[Len(stack) - 1].solver
                   after == stack'[Len(stack) - 1].solver
               IN  /\ after.borders = before.borders
                   /\ \A p \in DOMAIN before.possible_galaxy_ids :
                         after.possible_galaxy_ids[p] =
                             IF p = Top.assumed[1]
                             THEN before.possible_galaxy_ids[p] \ {Top.assumed[2]}
                             ELSE before.possible_galaxy_ids[p]
       /\ outcome' = "contradiction" => (RuleFails /\ Len(stack) = 1)]_vars

\* A clone is at a rule that derives a contradiction
CloneContradicts == RuleFails /\ Len(stack) > 1

(***************************************************************************)
(* The board's claims.                                                     *)
(***************************************************************************)
NoError ==
    [dangling_borders |-> {},
     incorrect_galaxy_sizes |-> {},
     centerless_cells |-> {},
     cut_centers |-> {},
     asymmetric_centers |-> {}]

\* C14: for a valid universe, the board of the frame and of every border
\* between two adjacent cells of different galaxies has no error against the
\* objective generated from the universe: no dangling border, no cut center,
\* no incorrect size, no asymmetric center, no centerless cell.
SolvedBoardHasNoError ==
    (/\ returned # <<>>
     /\ returned[1].method = "compute_error"
     /\ UniverseIsValid(U)
     /\ board = SolvedBoard(width, height, U)) => returned[1].value = NoError

\* The solved board of a universe with a galaxy of several cells and with a
\* center between four cells has been checked
SolvedBoardChecked ==
    /\ returned # <<>>
    /\ returned[1].method = "compute_error"
    /\ board = SolvedBoard(width, height, U)
    /\ \E g \in GetGalaxies(U) : Cardinality(g) > 1
    /\ \E g \in GetGalaxies(U) : GetCenterPlacement(Center(g)) = "Intersection"
    /\ Cardinality(GetGalaxies(U)) > 1

\* from_string has returned the board that to_string was called on
SameBoard ==
    /\ ~returned[1].value.panicked
    /\ returned[1].value.board = board

\* The board has the borders of its frame, and no border out of its frame
Framed ==
    /\ FrameBorders(board.width, board.height) \subseteq board.borders
    /\ board.borders \subseteq
          FrameBorders(board.width, board.height)
              \cup InteriorBorders(board.width, board.height)

\* Every board comes back from its text
TextRoundTrip ==
    (returned # <<>> /\ returned[1].method = "from_string") => SameBoard

\* C15: a board that has its whole frame, and no border out of it, comes
\* back from its text: from_string(to_string(b)) has the width, the height
\* and the borders of b.
FramedTextRoundTrip ==
    (returned # <<>> /\ returned[1].method = "from_string" /\ Framed) => SameBoard

\* A framed board with a dangling wall has come back from its text
FramedBoardRead ==
    /\ returned # <<>>
    /\ returned[1].method = "from_string"
    /\ Framed
    /\ GetDanglingBorders(board) # {}

\* C16: get_height returns the number of rows of the board, its height, also
\* when the board is not as wide as it is high.
GetHeightIsHeight ==
    (returned # <<>> /\ returned[1].method = "get_height") =>
        returned[1].value = board.height

(***************************************************************************)
(* The galaxy's claims.                                                    *)
(***************************************************************************)
Galaxy == the_galaxy[1]

Called(method) == returned # <<>> /\ returned[1].method = method

\* The galaxy is all the cells of its bounding rectangle
IsRectangular ==
    /\ Galaxy # {}
    /\ Galaxy = (Min({p[1] : p \in Galaxy}) .. Max({p[1] : p \in Galaxy}))
                \X (Min({p[2] : p \in Galaxy}) .. Max({p[2] : p \in Galaxy}))

\* C17: the rectangles of a set of cells have no cell in common and are
\* together the set; a rectangular galaxy has the one rectangle that is
\* itself, and the empty galaxy has none.
RectanglesPartition ==
    Called("rectangles") =>
        LET rects == returned[1].value
        IN  /\ \A i \in DOMAIN rects : RectanglePositions(rects[i]) # {}
            /\ \A i \in DOMAIN rects, j \in DOMAIN rects :
                  i # j => RectanglePositions(rects[i]) \cap RectanglePositions(rects[j]) = {}
            /\ UNION {RectanglePositions(rects[i]) : i \in DOMAIN rects} = Galaxy
            /\ IsRectangular =>
                  /\ Len(rects) = 1
                  /\ RectanglePositions(rects[1]) = Galaxy
            /\ Galaxy = {} => rects = <<>>

\* A galaxy that is no rectangle, away from the first row and the first
\* column, has got three rectangles or more
ManyRectangles ==
    /\ Called("rectangles")
    /\ Len(returned[1].value) >= 3
    /\ \A p \in Galaxy : p[1] > 0 /\ p[2] > 0

\* C18: the skeleton of a valid galaxy is made of cells of the galaxy, holds
\* every cell around the center of the galaxy, and is connected.
SkeletonInsideAndConnected ==
    (Called("get_skeleton") /\ IsValid(Galaxy)) =>
        /\ returned[1].value \subseteq Galaxy
        /\ CenterPositions(Center(Galaxy)) \subseteq returned[1].value
        /\ IsConnected(returned[1].value)

\* The skeleton of a valid galaxy has lost cells, and the first of them was
\* fat by its three neighbours
ThinnedSkeleton ==
    /\ Called("get_skeleton")
    /\ IsValid(Galaxy)
    /\ returned[1].value # Galaxy
    /\ IsMirrorSymmetric(Galaxy)
    /\ \A p \in Galaxy : ~IsFatCorner(Galaxy, CenterPositions(Center(Galaxy)), p)

\* C19: the center of a galaxy is the sum of its least and its greatest row
\* and the sum of its least and its greatest column, in half-steps: (0,1)
\* for {(0,0),(0,1)}, (0,2) for {(0,1)}; it is (0,0) for the empty galaxy.
CenterIsSumOfBounds ==
    Called("center") =>
        LET center == returned[1].value
        IN  /\ Galaxy = {} => center = <<0, 0>>
            /\ Galaxy # {} =>
                  \E low \in Galaxy, high \in Galaxy, leftmost \in Galaxy, rightmost \in Galaxy :
                     /\ \A p \in Galaxy :
                           /\ low[1] <= p[1] /\ p[1] <= high[1]
                           /\ leftmost[2] <= p[2] /\ p[2] <= rightmost[2]
                     /\ center = <<low[1] + high[1], leftmost[2] + rightmost[2]>>
            /\ Galaxy = {<<0, 0>>, <<0, 1>>} => center = <<0, 1>>
            /\ Galaxy = {<<0, 1>>} => center = <<0, 2>>

\* The center of a galaxy of several rows and columns is between cells
CenterBetweenCells ==
    /\ Called("center")
    /\ Cardinality(Galaxy) > 2
    /\ GetCenterPlacement(returned[1].value) = "Intersection"

(***************************************************************************)
(* Claims of behaviour.                                                    *)
(***************************************************************************)
\* C21: from Universe::new on, generate_step keeps every identifier below
\* the number of cells, and get_next_available_id never indexes its table
\* out of range.
IdentifiersInRange == ~panicked /\ ~IdOutOfRange(U)

\* The identifier that the partition P gives the cell p: the number of the
\* center of the galaxy of P that has p
IdIn(P, p) ==
    CHOOSE id \in 0 .. Len(centers) - 1 :
        \E g \in P : p \in g /\ Center(g) = centers[id + 1]

\* P puts the two cells of the border b in different galaxies
Separates(P, b) ==
    /\ b \in InteriorBorders(width, height)
    /\ \A g \in P : ~({b[1], b[2]} \subseteq g)

\* The solver s has ruled out nothing of the partition P
Agrees(s, P) ==
    /\ \A p \in Cells(width, height) : IdIn(P, p) \in s.possible_galaxy_ids[p]
    /\ \A b \in DOMAIN s.borders :
          s.borders[b] <=> (b \in FrameBorders(width, height) \/ Separates(P, b))

\* C22: in every state of the outermost solve, and for every valid partition
\* of the objective, every cell still has the identifier the partition gives
\* it among its candidates and every labelled border is labelled true exactly
\* when it is a border of the frame or lies between two galaxies of the
\* partition; every wall that solve returns is a wall of the partition.
SolveIsSound ==
    stack # <<>> =>
        \A P \in PartitionsOfObjective :
            /\ Agrees(stack[1].solver, P)
            /\ outcome = "ok" =>
                  \A b \in Solution : b \in FrameBorders(width, height) \/ Separates(P, b)

\* solve has returned Ok for an objective that has several partitions, with
\* borders labelled false and cells that have lost candidates
SoundlyNarrowed ==
    /\ outcome = "ok"
    /\ Cardinality(PartitionsOfObjective) >= 2
    /\ \E b \in DOMAIN stack[1].solver.borders : ~stack[1].solver.borders[b]
    /\ \E p \in Cells(width, height) :
          Cardinality(stack[1].solver.possible_galaxy_ids[p]) \in 2 .. Len(centers) - 1

\* The objective has a center, the cells around every center are cells of
\* the grid, and no cell is around two centers
WellFormedObjective ==
    /\ Len(centers) >= 1
    /\ \A i \in DOMAIN centers : CenterPositions(centers[i]) \subseteq Cells(width, height)
    /\ \A i \in DOMAIN centers, j \in DOMAIN centers :
          i # j => CenterPositions(centers[i]) \cap CenterPositions(centers[j]) = {}

Pairs(s, n) ==
    {a \in Cells(width, height) \X (0 .. Len(centers) - 1) :
        /\ a[2] \in s.possible_galaxy_ids[a[1]]
        /\ Cardinality(s.possible_galaxy_ids[a[1]]) \in 2 .. n}

CaseSplitOnlyRefutes ==
    [][\A i \in 1 .. Len(stack) :
          (stack[i].rule = 5 /\ i <= Len(stack')) =>
              LET before == stack[i].solver
                  after == stack'[i].solver
              IN  \/ after = before
                  \/ /\ RuleFails
                     /\ i = Len(stack) - 1
                     /\ after.borders = before.borders
                     /\ Top.assumed[2] \in before.possible_galaxy_ids[Top.assumed[1]]
                     /\ after.possible_galaxy_ids =
                            [before.possible_galaxy_ids EXCEPT
                                ![Top.assumed[1]] = @ \ {Top.assumed[2]}]
                     /\ after.possible_galaxy_ids[Top.assumed[1]] # {}]_vars

\* A clone that has labelled borders and removed candidates of other cells
\* is at a rule that derives a contradiction
DerivingCloneContradicts ==
    /\ RuleFails
    /\ Len(stack) > 1
    /\ Top.solver.borders # stack[Len(stack) - 1].solver.borders
    /\ \E p \in Cells(width, height) \ {Top.assumed[1]} :
          Top.solver.possible_galaxy_ids[p] # stack[Len(stack) - 1].solver.possible_galaxy_ids[p]

\* The identifiers of the centers that have the cell p around them
Around(p) == {id \in 0 .. Len(centers) - 1 : p \in CenterPositions(centers[id + 1])}

\* Exactly the borders of the frame and the walls of the objective are
\* labelled, and they are labelled true
OnlyFrameAndWalls(s) ==
    /\ DOMAIN s.borders = FrameBorders(width, height) \cup walls
    /\ \A b \in DOMAIN s.borders : s.borders[b]

\* C26 as the specification states it: in the solver that Solver::new
\* returns, the frame and the walls of the objective are the borders labelled
\* true and no border is labelled false, every cell around the center number
\* id has the candidates {id}, and every other cell has them all.
NewSolverAsStated ==
    stack # <<>> =>
        LET s == stack[1].solver
        IN  /\ OnlyFrameAndWalls(s)
            /\ \A p \in Cells(width, height) :
                  /\ \A id \in Around(p) : s.possible_galaxy_ids[p] = {id}
                  /\ Around(p) = {} => s.possible_galaxy_ids[p] = 0 .. Len(centers) - 1

\* C26, amended: the same of the borders; a cell around exactly one center
\* has the identifier of this center as its only candidate, a cell around two
\* centers or more has no candidate, and every other cell has them all.
NewSolverState ==
    stack # <<>> =>
        LET s == stack[1].solver
        IN  /\ OnlyFrameAndWalls(s)
            /\ \A p \in Cells(width, height) :
                  s.possible_galaxy_ids[p] =
                      IF Around(p) = {} THEN 0 .. Len(centers) - 1
                      ELSE IF Cardinality(Around(p)) = 1 THEN Around(p)
                      ELSE {}

\* Solver::new has returned for an objective that has a wall between two
\* cells, a cell around two centers and a cell around none
NewSolverOfSharedCell ==
    /\ stack # <<>>
    /\ walls \cap InteriorBorders(width, height) # {}
    /\ \E p \in Cells(width, height) : Cardinality(Around(p)) = 2
    /\ \E p \in Cells(width, height) : Around(p) = {}

\* The board b is a solution of the objective: its walls are its frame and
\* the borders between two regions, every region is a valid galaxy, and the
\* centers of the regions are the centers of the objective, one region each
IsSolution(b, objective_centers) ==
    LET regions == BoardGetGalaxies(b)
    IN  /\ b.borders =
              FrameBorders(b.width, b.height) \cup
              {border \in InteriorBorders(b.width, b.height) :
                  \A g \in regions : ~({border[1], border[2]} \subseteq g)}
        /\ \A g \in regions : IsValid(g)
        /\ {Center(g) : g \in regions} = {gc.position : gc \in objective_centers}
        /\ Cardinality(regions) = Cardinality(objective_centers)

\* C27: a board for which compute_error reports nothing is a solution of the
\* objective.
ErrorFreeIsSolution ==
    (/\ returned # <<>>
     /\ returned[1].method = "compute_error"
     /\ returned[1].value = NoError) => IsSolution(board, GalaxyCenters(U))

\* The identifiers in the grid
GetIds(u) == {u.grid[p] : p \in DOMAIN u.grid}

\* C28: in a valid universe two galaxies never have the same center, and the
\* objective generated from it has one center for every galaxy, as many as
\* there are identifiers in the grid, each with its size unset, and no wall;
\* these are the centers and the walls that Solver::new is given.
OneCenterPerGalaxy ==
    (origin = "universe" /\ UniverseIsValid(U)) =>
        LET objective == ObjectiveOf(U)
        IN  /\ \A g1 \in GetGalaxies(U), g2 \in GetGalaxies(U) :
                  g1 # g2 => Center(g1) # Center(g2)
            /\ Cardinality(objective.centers) = Cardinality(GetIds(U))
            /\ Cardinality(objective.centers) = Cardinality(GetGalaxies(U))
            /\ \A gc \in objective.centers : gc.size = <<>>
            /\ objective.walls = {}
            /\ {centers[i] : i \in DOMAIN centers} = {gc.position : gc \in objective.centers}
            /\ Len(centers) = Cardinality(GetIds(U))
            /\ walls = objective.walls

\* Solver::new has returned for the objective of a universe of three
\* galaxies or more, one of them of several cells
ObjectiveOfSeveralGalaxies ==
    /\ origin = "universe"
    /\ stack # <<>>
    /\ Cardinality(GetGalaxies(U)) >= 3
    /\ \E g \in GetGalaxies(U) : Cardinality(g) > 1

\* The two ends of a border, as points <<y, x>> of the lattice of the corners
\* of the cells: the cell <<row, column>> has the corners <<row, column>>,
\* <<row, column + 1>>, <<row + 1, column>> and <<row + 1, column + 1>>
Endpoints(border) ==
    IF border[1][1] = border[2][1]
    THEN {<<border[2][1], border[2][2]>>, <<border[2][1] + 1, border[2][2]>>}
    ELSE {<<border[2][1], border[2][2]>>, <<border[2][1], border[2][2] + 1>>}

\* The four borders that meet at a point of the lattice
SegmentsAt(point) ==
    LET y == point[1]
        x == point[2]
    IN  {BorderNew(<<y - 1, x - 1>>, <<y - 1, x>>), BorderNew(<<y, x - 1>>, <<y, x>>),
         BorderNew(<<y - 1, x - 1>>, <<y, x - 1>>), BorderNew(<<y - 1, x>>, <<y, x>>)}

\* The point is on the frame of the board
OnFrame(b, point) ==
    /\ point[1] \in 0 .. b.height
    /\ point[2] \in 0 .. b.width
    /\ point[1] \in {0, b.height} \/ point[2] \in {0, b.width}

\* The walls with an end that is not on the frame and that no other wall
\* reaches
DanglingAsStated(b) ==
    {border \in b.borders :
        \E end \in Endpoints(border) :
            /\ ~OnFrame(b, end)
            /\ (SegmentsAt(end) \ {border}) \cap b.borders = {}}

\* C29 as the specification states it: the dangling borders of compute_error
\* are the walls with an end that is not on a frame line and that none of
\* the three other borders meeting there reaches as a wall.
DanglingOnEveryBoard ==
    (returned # <<>> /\ returned[1].method = "compute_error") =>
        returned[1].value.dangling_borders = DanglingAsStated(board)

\* C29, amended: the same, of a board that has its whole frame and no wall
\* out of it.
DanglingOnFramedBoard ==
    (returned # <<>> /\ returned[1].method = "compute_error" /\ Framed) =>
        returned[1].value.dangling_borders = DanglingAsStated(board)

\* compute_error has returned for a framed board that has a wall with one
\* end on the frame and the other end loose
DanglingReported ==
    /\ returned # <<>>
    /\ returned[1].method = "compute_error"
    /\ Framed
    /\ \E border \in returned[1].value.dangling_borders :
          \E end \in Endpoints(border) : OnFrame(board, end)

\* C30: when remove_positions_from_galaxy(g, S) returns, it has left every
\* cell outside g with its identifier; no cell outside g has the identifier of a
\* cell of g; every cell of g either keeps the identifier of g, with the
\* other cells that keep it, or is a single with an identifier that no cell
\* had before.
RemovalStaysInGalaxy ==
    [][(removal = <<>> /\ removal' # <<>> /\ ~panicked') =>
          LET g == removal'[1].galaxy
              before == {grid[p] : p \in DOMAIN grid}
          IN  /\ DOMAIN grid' = DOMAIN grid
              /\ \A p \in DOMAIN grid \ g : grid'[p] = grid[p]
              /\ \A p \in DOMAIN grid \ g : \A q \in g : grid'[p] # grid'[q]
              /\ \A q \in g :
                    \/ grid'[q] = grid[q]
                    \/ /\ grid'[q] \notin before
                       /\ \A p \in DOMAIN grid \ {q} : grid'[p] # grid'[q]]_vars

\* A call has detached cells of a galaxy and left several cells of it
\* together, in a universe that has other galaxies of several cells
RemovalLeavesRest ==
    /\ removal # <<>>
    /\ ~panicked
    /\ ~removal[1].broken
    /\ \E q \in removal[1].galaxy :
          /\ Cardinality(GetGalaxy(U, q)) >= 2
          /\ Cardinality(GetGalaxy(U, q)) < Cardinality(removal[1].galaxy)
    /\ \E p \in DOMAIN grid \ removal[1].galaxy : Cardinality(GetGalaxy(U, p)) >= 2

\* The cells of the galaxy within n steps, each to an adjacent cell of the
\* galaxy, of a cell around the center
RECURSIVE Within(_, _)
Within(g, n) ==
    IF n = 0 THEN CenterPositions(Center(g))
    ELSE LET near == Within(g, n - 1)
         IN  near \cup {q \in g : \E p \in near : q \in PositionAdjacent(p)}

\* The length of a shortest path inside the galaxy from p to a cell around the
\* center
PathLength(g, p) == Min({n \in 0 .. Cardinality(g) : p \in Within(g, n)})

\* C31: for a valid galaxy get_hamming_distances returns a map whose keys are
\* the cells of the galaxy, that gives 0 to the cells around the center and to
\* every other cell the length of a shortest path of adjacent cells of the
\* galaxy to a cell around the center.
HammingIsPathLength ==
    (Called("get_hamming_distances") /\ IsValid(Galaxy)) =>
        /\ ~returned[1].value.panicked
        /\ DOMAIN returned[1].value.distances = Galaxy
        /\ \A p \in Galaxy :
              /\ returned[1].value.distances[p] = PathLength(Galaxy, p)
              /\ p \in CenterPositions(Center(Galaxy)) <=>
                     returned[1].value.distances[p] = 0

\* The number of steps between two positions on a grid without walls
Steps(p, q) ==
    (IF p[1] > q[1] THEN p[1] - q[1] ELSE q[1] - p[1])
        + (IF p[2] > q[2] THEN p[2] - q[2] ELSE q[2] - p[2])

\* The distances of a valid galaxy one of whose cells is further from the
\* cells around the center inside the galaxy than it is on the grid
HammingOfDetour ==
    /\ Called("get_hamming_distances")
    /\ IsValid(Galaxy)
    /\ \E p \in Galaxy :
          \A c \in CenterPositions(Center(Galaxy)) :
              returned[1].value.distances[p] > Steps(p, c)

\* C32: every operation of GameState that changes the board resets error to
\* None; the view's is_solved is true only after a step that leaves the board
\* as it is and is either check_solution with a report that names nothing or
\* a step from a solved state that leaves error as it is, and then error is
\* the report of compute_error for the board and the objective as they are.
SolvedOnlyAfterCheck ==
    [][/\ board' # board => error' = <<>>
       /\ IsSolved' =>
             /\ board' = board
             /\ \/ error' = <<ComputeError(board, ObjectiveCenters)>>
                \/ IsSolved /\ error' = error
             /\ error'[1] = ComputeError(board', ObjectiveCenters')]_vars

\* The board is solved after a toggle that was undone, a hint and a check
SolvedAfterHint ==
    /\ IsSolved
    /\ history # <<>>
    /\ history.future # <<>>
    /\ walls # {}

=============================================================================
